---- MODULE Spec2Model ----
(***************************************************************************)
(* Product catalog service: the Product aggregate (business methods,       *)
(* change tracking, pending events), the repository ports that turn the    *)
(* aggregate into Spanner mutations, the commit plan and its Applier, and  *)
(* the six mutating use cases.                                             *)
(*                                                                         *)
(* Three specifications share the module:                                  *)
(*   Spec        the use cases run against the products / outbox_events    *)
(*               tables through the real repositories;                     *)
(*   SpecDomain  business methods called on one in-memory aggregate;       *)
(*   SpecAll     either of the two (a run is one or the other).            *)
(*                                                                         *)
(* Optional values (Go pointers that may be nil) are sequences of length   *)
(* at most one: <<>> is nil, <<v>> is a pointer to v.                      *)
(***************************************************************************)
EXTENDS Integers, Sequences, FiniteSets, TLC

VARIABLES
    now,        \* the reading of common.Ticker
    products,   \* table products: a set of rows keyed by product_id
    outbox,     \* table outbox_events: a set of rows keyed by event_id
    commitTs,   \* Spanner commit timestamp of the latest commit
    last,       \* record of the latest use-case execution
    p,          \* SpecDomain: the aggregate instance under test
    call,       \* SpecDomain: the latest method call on p
    steps,      \* number of executions (Spec) or method calls (SpecDomain) so far
    calc        \* SpecPricing, SpecMoney, SpecDiscount: the inputs and the latest
                \* result of the pricing calculator or of the value object;
                \* SpecTracker: the change tracker and the goroutines using it;
                \* SpecConcurrent: the executions in progress

vars == <<now, products, outbox, commitTs, last, p, call, steps, calc>>

----------------------------------------------------------------------------
(* Bounds *)

\* Timestamps are 0..MaxTime.
MaxTime == 2
\* Spec runs at most MaxExecs use-case executions on the tables it starts from.
MaxExecs == 1
\* SpecDomain calls at most MaxCalls business methods on the aggregate.
MaxCalls == 2

Times == 0..MaxTime

Nil == <<>>
Some(v) == <<v>>
IsNil(o) == o = <<>>
Val(o) == o[1]

----------------------------------------------------------------------------
(* Program constants *)

ProductStatusActive == "active"
ProductStatusInactive == "inactive"

FieldName == "name"
FieldDiscount == "discount"
FieldDescription == "description"
FieldCategory == "category"
FieldBasePrice == "base_price"
FieldStatus == "status"

Fields == {FieldName, FieldDiscount, FieldDescription, FieldCategory,
           FieldBasePrice, FieldStatus}

\* errors.go sentinel values; NoErr is Go's nil error.
NoErr == "nil"
ErrDiscountInvalidPercentage == "discount percentage must be between 0 and 100"
ErrDiscountInvalidPeriod == "discount end date must be after start date"
ErrProductNotActive == "product is not active"
ErrProductNotFound == "product not found"
ErrProductIDRequired == "product id is required"
ErrProductNameRequired == "product name is required"
ErrProductBasePriceRequired == "product base price is required"
ErrInvalidDiscountPeriod == "invalid discount period"
ErrNoActiveDiscount == "product has no active discount"
ErrInvalidStatus == "invalid product status"
ErrNegativeAmount == "money amount cannot be negative"
ErrInvalidCurrency == "invalid currency code"
ErrCurrencyMismatch == "currency mismatch"
ErrDiscountNil == "discount must not be nil"

\* createproduct.basePrice
basePrice == 100

----------------------------------------------------------------------------
(* Money *)

\* len(currency) for the currency codes the model uses.
CurrencyLen(c) ==
    CASE c = "USD" -> 3
      [] c = "VND" -> 3
      [] c = "US" -> 2
      [] OTHER -> 0

\* The currency codes of the model.
Currencies == {"USD", "VND", "US"}

NewMoney(amount, currency) ==
    IF amount < 0 THEN [m |-> Nil, err |-> ErrNegativeAmount]
    ELSE IF CurrencyLen(currency) # 3 THEN [m |-> Nil, err |-> ErrInvalidCurrency]
    ELSE [m |-> Some([amount |-> amount, currency |-> currency]), err |-> NoErr]

----------------------------------------------------------------------------
(* Discount *)

\* strconv.ParseFloat on the percentage texts the model uses; val is the
\* parsed number in tenths of a percent, and nan tells that the text parses,
\* without error, to the float64 NaN.
ParseFloat(text) ==
    CASE text = "0" -> [ok |-> TRUE, nan |-> FALSE, val |-> 0]
      [] text = "7" -> [ok |-> TRUE, nan |-> FALSE, val |-> 70]
      [] text = "10" -> [ok |-> TRUE, nan |-> FALSE, val |-> 100]
      [] text = "12.5" -> [ok |-> TRUE, nan |-> FALSE, val |-> 125]
      [] text = "100" -> [ok |-> TRUE, nan |-> FALSE, val |-> 1000]
      [] text = "100.5" -> [ok |-> TRUE, nan |-> FALSE, val |-> 1005]
      [] text = "-1" -> [ok |-> TRUE, nan |-> FALSE, val |-> -10]
      [] text = "NaN" -> [ok |-> TRUE, nan |-> TRUE, val |-> 0]
      [] OTHER -> [ok |-> FALSE, nan |-> FALSE, val |-> 0]

\* pct < n and pct > n on a parsed float64: every comparison with NaN is
\* false.
Float64Below(f, n) == ~f.nan /\ f.val < n
Float64Above(f, n) == ~f.nan /\ f.val > n

\* A variant that rejects a window only when it ends before it starts.
NewDiscountAllowEmpty(percentage, startsAt, endsAt) ==
    LET f == ParseFloat(percentage) IN
    IF ~f.ok \/ Float64Below(f, 0) \/ Float64Above(f, 1000)
    THEN [d |-> Nil, err |-> ErrDiscountInvalidPercentage]
    ELSE IF endsAt < startsAt
    THEN [d |-> Nil, err |-> ErrDiscountInvalidPeriod]
    ELSE [d |-> Some([percentage |-> percentage, startsAt |-> startsAt,
                      endsAt |-> endsAt]),
          err |-> NoErr]

NewDiscount(percentage, startsAt, endsAt) ==
    LET f == ParseFloat(percentage) IN
    IF ~f.ok \/ Float64Below(f, 0) \/ Float64Above(f, 1000)
    THEN [d |-> Nil, err |-> ErrDiscountInvalidPercentage]
    ELSE IF ~(endsAt > startsAt)
    THEN [d |-> Nil, err |-> ErrDiscountInvalidPeriod]
    ELSE [d |-> Some([percentage |-> percentage, startsAt |-> startsAt,
                      endsAt |-> endsAt]),
          err |-> NoErr]

\* A variant whose window includes its end.
IsValidAtClosed(d, t) == ~(t < d.startsAt) /\ ~(d.endsAt < t)

IsValidAt(d, t) == ~(t < d.startsAt) /\ t < d.endsAt

PercentageFloat64(d) == ParseFloat(d.percentage).val

----------------------------------------------------------------------------
(* int64 and float64.  The amounts the pricing calculator computes with are *)
(* int64 values kept as wide naturals: their digits in base 2^LimbBits,     *)
(* least significant first.  A float64 is [m, e], the value m * 2^e with m  *)
(* a wide natural of at most Float64Precision binary digits; every          *)
(* operation rounds its exact result to the nearest such value, ties to     *)
(* even, as IEEE 754 does.                                                  *)

LimbBits == 15
Limb == 2 ^ LimbBits
Float64Precision == 53

RECURSIVE WTrim(_)
WTrim(a) == IF Len(a) = 0 \/ a[Len(a)] # 0 THEN a ELSE WTrim(SubSeq(a, 1, Len(a) - 1))

RECURSIVE Wide(_)
Wide(n) == IF n = 0 THEN <<>> ELSE <<n % Limb>> \o Wide(n \div Limb)

RECURSIVE Narrow(_)
Narrow(a) == IF Len(a) = 0 THEN 0 ELSE a[1] + Limb * Narrow(Tail(a))

Digit(a, i) == IF i >= 1 /\ i <= Len(a) THEN a[i] ELSE 0

RECURSIVE WAddCarry(_, _, _, _)
WAddCarry(a, b, i, c) ==
    IF i > Len(a) /\ i > Len(b) THEN (IF c = 0 THEN <<>> ELSE <<c>>)
    ELSE <<(Digit(a, i) + Digit(b, i) + c) % Limb>>
         \o WAddCarry(a, b, i + 1, (Digit(a, i) + Digit(b, i) + c) \div Limb)
WAdd(a, b) == WAddCarry(a, b, 1, 0)

\* a - b for a >= b
RECURSIVE WSubBorrow(_, _, _, _)
WSubBorrow(a, b, i, c) ==
    IF i > Len(a) THEN <<>>
    ELSE <<(Digit(a, i) - Digit(b, i) - c) % Limb>>
         \o WSubBorrow(a, b, i + 1, IF Digit(a, i) - Digit(b, i) - c < 0 THEN 1 ELSE 0)
WSub(a, b) == WTrim(WSubBorrow(a, b, 1, 0))

RECURSIVE WLessFrom(_, _, _)
WLessFrom(a, b, i) ==
    IF i = 0 THEN FALSE
    ELSE IF Digit(a, i) # Digit(b, i) THEN Digit(a, i) < Digit(b, i)
    ELSE WLessFrom(a, b, i - 1)
WLess(a, b) == WLessFrom(a, b, IF Len(a) > Len(b) THEN Len(a) ELSE Len(b))

RECURSIVE WMulDigit(_, _, _, _)
WMulDigit(a, k, i, c) ==
    IF i > Len(a) THEN (IF c = 0 THEN <<>> ELSE <<c>>)
    ELSE <<(a[i] * k + c) % Limb>> \o WMulDigit(a, k, i + 1, (a[i] * k + c) \div Limb)

RECURSIVE WMulFrom(_, _, _)
WMulFrom(a, b, j) ==
    IF j > Len(b) THEN <<>>
    ELSE WAdd(WMulDigit(a, b[j], 1, 0), <<0>> \o WMulFrom(a, b, j + 1))
WMul(a, b) == WTrim(WMulFrom(a, b, 1))

\* Long division by a divisor below 2^15, most significant digit first.
RECURSIVE WDivFrom(_, _, _, _)
WDivFrom(a, d, i, r) ==
    IF i = 0 THEN [q |-> <<>>, r |-> r]
    ELSE LET rest == WDivFrom(a, d, i - 1, (r * Limb + a[i]) % d)
         IN [q |-> Append(rest.q, (r * Limb + a[i]) \div d), r |-> rest.r]
WDiv(a, d) == WDivFrom(a, d, Len(a), 0)

\* Binary digits of a wide natural.
BitLenOfDigit(x) == CHOOSE k \in 0..LimbBits : x < 2 ^ k /\ (k = 0 \/ x >= 2 ^ (k - 1))
BitLen(a) ==
    IF Len(WTrim(a)) = 0 THEN 0
    ELSE LimbBits * (Len(WTrim(a)) - 1) + BitLenOfDigit(WTrim(a)[Len(WTrim(a))])
Bit(a, i) ==
    IF i < 1 THEN 0
    ELSE (Digit(a, (i - 1) \div LimbBits + 1) \div 2 ^ ((i - 1) % LimbBits)) % 2
ShiftRight(a, s) ==
    LET q == s \div LimbBits
        r == s % LimbBits
    IN WTrim([i \in 1..(IF Len(a) > q THEN Len(a) - q ELSE 0) |->
                Digit(a, i + q) \div 2 ^ r
                + (Digit(a, i + q + 1) % 2 ^ r) * 2 ^ (LimbBits - r)])
ShiftLeft(a, s) ==
    LET q == s \div LimbBits
        r == s % LimbBits
    IN WTrim([i \in 1..(Len(a) + q + 1) |->
                (Digit(a, i - q) % 2 ^ (LimbBits - r)) * 2 ^ r
                + Digit(a, i - q - 1) \div 2 ^ (LimbBits - r)])
Pow2(s) == ShiftLeft(<<1>>, s)
\* Whether one of the s lowest binary digits is set.
LowBitsSet(a, s) == WTrim(a) # WTrim(ShiftLeft(ShiftRight(a, s), s))

\* float64: value m * 2^e; m has at most Float64Precision digits.
\* Round n * 2^e (plus a sticky remainder) to Float64Precision digits, ties to even.
RoundToFloat64(n, e, sticky) ==
    LET s == BitLen(n) - Float64Precision
    IN IF s <= 0 THEN [m |-> WTrim(n), e |-> e]
       ELSE LET kept == ShiftRight(n, s)
                up == Bit(n, s) = 1 /\ (sticky \/ LowBitsSet(n, s - 1) \/ Bit(kept, 1) = 1)
            IN [m |-> IF up THEN WAdd(kept, <<1>>) ELSE kept, e |-> e + s]

Float64Div(x, d) ==
    LET dv == WDiv(ShiftLeft(x.m, 64), d)
    IN RoundToFloat64(dv.q, x.e - 64, dv.r # 0)

\* 1 - x for 0 <= x <= 1
Float64OneMinus(x) ==
    IF BitLen(x.m) = 0 THEN [m |-> <<1>>, e |-> 0]
    ELSE RoundToFloat64(WSub(Pow2(0 - x.e), x.m), x.e, FALSE)

Float64Mul(x, y) == RoundToFloat64(WMul(x.m, y.m), x.e + y.e, FALSE)

\* math.Round of x >= 0
MathRound(x) ==
    IF x.e >= 0 THEN ShiftLeft(x.m, x.e)
    ELSE IF Bit(x.m, 0 - x.e) = 1 THEN WAdd(ShiftRight(x.m, 0 - x.e), <<1>>)
    ELSE ShiftRight(x.m, 0 - x.e)

\* float64(amount)
Float64OfInt(n) == RoundToFloat64(n, 0, FALSE)

\* The float64 of a percentage given in tenths of a percent; every
\* percentage text of the model is a multiple of 0.5, which float64 holds
\* exactly.
Float64OfTenths(tenths) == [m |-> Wide(tenths \div 5), e |-> -1]

\* A Money whose int64 amount is kept as a wide natural.
WideMoney(m) == [amount |-> Wide(m.amount), currency |-> m.currency]

\* fmt.Errorf("%w: %s vs %s", ErrCurrencyMismatch, a, b): an error value of
\* its own text that wraps ErrCurrencyMismatch.
WrapCurrencyMismatch(a, b) == ErrCurrencyMismatch \o ": " \o a \o " vs " \o b

\* errors.Is(err, ErrCurrencyMismatch): err is the sentinel or wraps it.
IsCurrencyMismatch(err) ==
    \/ err = ErrCurrencyMismatch
    \/ \E a \in Currencies, b \in Currencies : err = WrapCurrencyMismatch(a, b)

\* Money.sameCurrency
sameCurrency(m, other) ==
    IF IsNil(other) THEN ErrCurrencyMismatch
    ELSE IF m.currency # Val(other).currency
    THEN WrapCurrencyMismatch(m.currency, Val(other).currency)
    ELSE NoErr

\* Money.Subtract on wide amounts
Subtract(m, other) ==
    IF sameCurrency(m, other) # NoErr THEN [m |-> Nil, err |-> sameCurrency(m, other)]
    ELSE IF WLess(m.amount, Val(other).amount) THEN [m |-> Nil, err |-> ErrNegativeAmount]
    ELSE [m |-> Some([amount |-> WSub(m.amount, Val(other).amount),
                      currency |-> m.currency]),
          err |-> NoErr]

\* An int64 is kept in two's complement: the wide natural below 2^Int64Bits
\* congruent to it, negative when the top binary digit is set.
Int64Bits == 64
MaxInt64 == WSub(Pow2(Int64Bits - 1), Wide(1))
MinInt64 == Pow2(Int64Bits - 1)

\* The int64 an int64 operation yields for the exact result w: the low
\* Int64Bits binary digits of w.
WrapInt64(w) == WSub(w, ShiftLeft(ShiftRight(w, Int64Bits), Int64Bits))

\* int64 < 0
IsNegativeInt64(w) == Bit(w, Int64Bits) = 1

\* What int64(x) can be for a float64 x above the int64 range, a conversion
\* Go leaves to the implementation: amd64 gives the least int64, arm64 the
\* greatest.
OutOfRangeInt64 == {MinInt64, MaxInt64}

\* int64(x) for the rounded non-negative float64 of value w; o is what the
\* build gives when w is outside int64.
Int64OfFloat64(w, o) == IF WLess(w, Pow2(Int64Bits - 1)) THEN WTrim(w) ELSE o

\* The result res of Multiply or ApplyPercentageDiscount with its amount
\* converted to int64.
ConvertedInt64(res, o) ==
    IF IsNil(res.m) THEN res
    ELSE [res EXCEPT !.m = Some([Val(res.m) EXCEPT !.amount = Int64OfFloat64(@, o)])]

\* Money.Add on wide amounts
Add(m, other) ==
    IF sameCurrency(m, other) # NoErr THEN [m |-> Nil, err |-> sameCurrency(m, other)]
    ELSE [m |-> Some([amount |-> WrapInt64(WAdd(m.amount, Val(other).amount)),
                      currency |-> m.currency]),
          err |-> NoErr]

\* Money.IsGreaterThan on wide amounts
IsGreaterThan(m, other) ==
    IF sameCurrency(m, other) # NoErr THEN [b |-> FALSE, err |-> sameCurrency(m, other)]
    ELSE [b |-> WLess(Val(other).amount, m.amount), err |-> NoErr]

\* Money.IsLessThan on wide amounts
IsLessThan(m, other) ==
    IF sameCurrency(m, other) # NoErr THEN [b |-> FALSE, err |-> sameCurrency(m, other)]
    ELSE [b |-> WLess(m.amount, Val(other).amount), err |-> NoErr]

\* Money.Multiply on a wide amount; factor is a float64 [neg, m, e] of value
\* (-1)^neg * m * 2^e.  The amount returned is math.Round(float64(amount) *
\* factor), still to be converted to int64.
Multiply(m, factor) ==
    IF factor.neg /\ BitLen(factor.m) # 0 THEN [m |-> Nil, err |-> ErrNegativeAmount]
    ELSE [m |-> Some([amount |-> MathRound(Float64Mul(Float64OfInt(m.amount),
                                                      [m |-> factor.m, e |-> factor.e])),
                      currency |-> m.currency]),
          err |-> NoErr]

----------------------------------------------------------------------------
(* Pricing calculator *)

ErrInvalidDiscountAmount == "discount amount must be between 0 and 100"

\* Money.ApplyPercentageDiscount on a wide amount; percentage in tenths of a
\* percent.  The amount returned is math.Round(float64(amount) *
\* (1 - percentage/100)); it is its own int64 unless it is 2^63 or more
\* (see Int64OfFloat64).
ApplyPercentageDiscount(m, percentage) ==
    IF percentage < 0 \/ percentage > 1000
    THEN [m |-> Nil, err |-> ErrInvalidDiscountAmount]
    ELSE [m |-> Some([amount |->
                        MathRound(Float64Mul(
                            Float64OfInt(m.amount),
                            Float64OneMinus(Float64Div(Float64OfTenths(percentage), 100)))),
                      currency |-> m.currency]),
          err |-> NoErr]

\* PricingCalculator.EffectivePrice
EffectivePrice(price, discount, t) ==
    IF IsNil(price) THEN [m |-> Nil, err |-> ErrProductBasePriceRequired]
    ELSE IF IsNil(discount) \/ ~IsValidAt(Val(discount), t) THEN [m |-> price, err |-> NoErr]
    ELSE LET pct == ParseFloat(Val(discount).percentage) IN
         IF ~pct.ok THEN [m |-> Nil, err |-> ErrDiscountInvalidPercentage]
         ELSE IF pct.nan
         THEN \* NaN passes the range check of ApplyPercentageDiscount and
              \* math.Round(NaN) is no int64 (see Int64OfFloat64).
              [m |-> Some([amount |-> Pow2(Int64Bits - 1),
                           currency |-> Val(price).currency]),
               err |-> NoErr]
         ELSE ApplyPercentageDiscount(Val(price), pct.val)

\* PricingCalculator.DiscountAmount
DiscountAmount(price, discount, t) ==
    IF IsNil(price) THEN [m |-> Nil, err |-> ErrProductBasePriceRequired]
    ELSE LET zero == NewMoney(0, Val(price).currency)
             effective == EffectivePrice(price, discount, t)
         IN IF zero.err # NoErr THEN [m |-> Nil, err |-> zero.err]
            ELSE IF IsNil(discount) \/ ~IsValidAt(Val(discount), t)
            THEN [m |-> Some(WideMoney(Val(zero.m))), err |-> NoErr]
            ELSE IF effective.err # NoErr THEN [m |-> Nil, err |-> effective.err]
            ELSE Subtract(Val(price), effective.m)

\* PricingCalculator.IsDiscounted
IsDiscounted(discount, t) == ~IsNil(discount) /\ IsValidAt(Val(discount), t)

----------------------------------------------------------------------------
(* Domain events *)

NewProductCreatedEvent(productID, name, category, price, status, at) ==
    [eventName |-> "product.created", productID |-> productID, at |-> at,
     data |-> [name |-> name, category |-> category, basePrice |-> price,
               status |-> status]]

NewProductUpdatedEvent(productID, changedFields, at) ==
    [eventName |-> "product.updated", productID |-> productID, at |-> at,
     data |-> [changedFields |-> changedFields]]

NewProductActivatedEvent(productID, at) ==
    [eventName |-> "product.activated", productID |-> productID, at |-> at,
     data |-> [none |-> TRUE]]

NewProductDeactivatedEvent(productID, at) ==
    [eventName |-> "product.deactivated", productID |-> productID, at |-> at,
     data |-> [none |-> TRUE]]

NewDiscountAppliedEvent(productID, percentage, startsAt, endsAt, at) ==
    [eventName |-> "product.discount_applied", productID |-> productID, at |-> at,
     data |-> [percentage |-> percentage, startsAt |-> startsAt, endsAt |-> endsAt]]

NewDiscountRemovedEvent(productID, at) ==
    [eventName |-> "product.discount_removed", productID |-> productID, at |-> at,
     data |-> [none |-> TRUE]]

----------------------------------------------------------------------------
(* Change tracker *)

NewChanges == {}
MarkDirty(c, f) == c \cup {f}
Dirty(c, f) == f \in c

----------------------------------------------------------------------------
(* Product aggregate.  A method returns [p |-> the aggregate after the    *)
(* call, err |-> the error returned].                                      *)

\* A variant that does not validate the name.
NewProductUnchecked(id, name, description, category, price, at) ==
    IF IsNil(price) THEN [p |-> Nil, err |-> ErrProductBasePriceRequired]
    ELSE [p |-> Some([id |-> id, name |-> name, description |-> description,
                      category |-> category, basePrice |-> price,
                      discount |-> Nil, status |-> ProductStatusActive,
                      changes |-> NewChanges,
                      events |-> <<NewProductCreatedEvent(id, name, category, price,
                                                          ProductStatusActive, at)>>]),
          err |-> NoErr]

NewProduct(id, name, description, category, price, at) ==
    IF name = "" THEN [p |-> Nil, err |-> ErrProductNameRequired]
    ELSE IF IsNil(price) THEN [p |-> Nil, err |-> ErrProductBasePriceRequired]
    ELSE [p |-> Some([id |-> id, name |-> name, description |-> description,
                      category |-> category, basePrice |-> price,
                      discount |-> Nil, status |-> ProductStatusActive,
                      changes |-> NewChanges,
                      events |-> <<NewProductCreatedEvent(id, name, category, price,
                                                          ProductStatusActive, at)>>]),
          err |-> NoErr]

\* A variant that rebuilds every product as Active.
ReconstituteActive(id, name, description, category, price, discount, status) ==
    IF id = "" THEN [p |-> Nil, err |-> ErrProductIDRequired]
    ELSE IF name = "" THEN [p |-> Nil, err |-> ErrProductNameRequired]
    ELSE IF status # ProductStatusActive /\ status # ProductStatusInactive
    THEN [p |-> Nil, err |-> ErrInvalidStatus]
    ELSE [p |-> Some([id |-> id, name |-> name, description |-> description,
                      category |-> category, basePrice |-> price,
                      discount |-> discount, status |-> ProductStatusActive,
                      changes |-> NewChanges, events |-> <<>>]),
          err |-> NoErr]

Reconstitute(id, name, description, category, price, discount, status) ==
    IF id = "" THEN [p |-> Nil, err |-> ErrProductIDRequired]
    ELSE IF name = "" THEN [p |-> Nil, err |-> ErrProductNameRequired]
    ELSE IF status # ProductStatusActive /\ status # ProductStatusInactive
    THEN [p |-> Nil, err |-> ErrInvalidStatus]
    ELSE [p |-> Some([id |-> id, name |-> name, description |-> description,
                      category |-> category, basePrice |-> price,
                      discount |-> discount, status |-> status,
                      changes |-> NewChanges, events |-> <<>>]),
          err |-> NoErr]

\* A variant without the early return on an equal name.
SetNameAlways(a, name) ==
    IF name = "" THEN [p |-> a, err |-> ErrProductNameRequired]
    ELSE [p |-> [a EXCEPT !.name = name, !.changes = MarkDirty(@, FieldName)],
          err |-> NoErr]

SetName(a, name) ==
    IF name = "" THEN [p |-> a, err |-> ErrProductNameRequired]
    ELSE IF a.name = name THEN [p |-> a, err |-> NoErr]
    ELSE [p |-> [a EXCEPT !.name = name, !.changes = MarkDirty(@, FieldName)],
          err |-> NoErr]

SetDescription(a, description) ==
    IF a.description = description THEN [p |-> a, err |-> NoErr]
    ELSE [p |-> [a EXCEPT !.description = description,
                          !.changes = MarkDirty(@, FieldDescription)],
          err |-> NoErr]

SetCategory(a, category) ==
    IF a.category = category THEN [p |-> a, err |-> NoErr]
    ELSE [p |-> [a EXCEPT !.category = category,
                          !.changes = MarkDirty(@, FieldCategory)],
          err |-> NoErr]

SetBasePrice(a, price) ==
    IF IsNil(price) THEN [p |-> a, err |-> ErrProductBasePriceRequired]
    ELSE [p |-> [a EXCEPT !.basePrice = price,
                          !.changes = MarkDirty(@, FieldBasePrice)],
          err |-> NoErr]

\* A variant without the early return on an active product.
ActivateAlways(a, at) ==
    [p |-> [a EXCEPT !.status = ProductStatusActive,
                     !.changes = MarkDirty(@, FieldStatus),
                     !.events = Append(@, NewProductActivatedEvent(a.id, at))],
     err |-> NoErr]

Activate(a, at) ==
    IF a.status = ProductStatusActive THEN [p |-> a, err |-> NoErr]
    ELSE [p |-> [a EXCEPT !.status = ProductStatusActive,
                          !.changes = MarkDirty(@, FieldStatus),
                          !.events = Append(@, NewProductActivatedEvent(a.id, at))],
          err |-> NoErr]

\* A variant that leaves the discount on the deactivated product.
DeactivateKeepsDiscount(a, at) ==
    IF a.status = ProductStatusInactive THEN [p |-> a, err |-> NoErr]
    ELSE [p |-> [a EXCEPT !.status = ProductStatusInactive,
                          !.changes = MarkDirty(@, FieldStatus),
                          !.events = Append(@, NewProductDeactivatedEvent(a.id, at))],
          err |-> NoErr]

\* A variant that raises the deactivation event before the discount removal.
DeactivateEventFirst(a, at) ==
    IF a.status = ProductStatusInactive THEN [p |-> a, err |-> NoErr]
    ELSE LET s == [a EXCEPT !.status = ProductStatusInactive,
                            !.changes = MarkDirty(@, FieldStatus),
                            !.events = Append(@, NewProductDeactivatedEvent(a.id, at))]
         IN [p |-> IF ~IsNil(s.discount)
                   THEN [s EXCEPT !.events = Append(@, NewDiscountRemovedEvent(a.id, at)),
                                  !.discount = Nil,
                                  !.changes = MarkDirty(@, FieldDiscount)]
                   ELSE s,
             err |-> NoErr]

Deactivate(a, at) ==
    IF a.status = ProductStatusInactive THEN [p |-> a, err |-> NoErr]
    ELSE LET s == [a EXCEPT !.status = ProductStatusInactive,
                            !.changes = MarkDirty(@, FieldStatus)]
             d == IF ~IsNil(s.discount)
                  THEN [s EXCEPT !.events = Append(@, NewDiscountRemovedEvent(a.id, at)),
                                 !.discount = Nil,
                                 !.changes = MarkDirty(@, FieldDiscount)]
                  ELSE s
         IN [p |-> [d EXCEPT !.events = Append(@, NewProductDeactivatedEvent(a.id, at))],
             err |-> NoErr]

\* A variant that checks the discount window before the status.
ApplyDiscountWindowFirst(a, discount, at) ==
    IF IsNil(discount) THEN [p |-> a, err |-> ErrDiscountNil]
    ELSE IF ~IsValidAt(Val(discount), at) THEN [p |-> a, err |-> ErrInvalidDiscountPeriod]
    ELSE IF a.status # ProductStatusActive THEN [p |-> a, err |-> ErrProductNotActive]
    ELSE [p |-> [a EXCEPT !.discount = discount,
                          !.changes = MarkDirty(@, FieldDiscount),
                          !.events = Append(@, NewDiscountAppliedEvent(
                                         a.id, Val(discount).percentage,
                                         Val(discount).startsAt, Val(discount).endsAt, at))],
          err |-> NoErr]

\* A variant that assigns the discount before it checks the window.
ApplyDiscountAssignFirst(a, discount, at) ==
    IF a.status # ProductStatusActive THEN [p |-> a, err |-> ErrProductNotActive]
    ELSE IF IsNil(discount) THEN [p |-> a, err |-> ErrDiscountNil]
    ELSE IF ~IsValidAt(Val(discount), at)
    THEN [p |-> [a EXCEPT !.discount = discount], err |-> ErrInvalidDiscountPeriod]
    ELSE [p |-> [a EXCEPT !.discount = discount,
                          !.changes = MarkDirty(@, FieldDiscount),
                          !.events = Append(@, NewDiscountAppliedEvent(
                                         a.id, Val(discount).percentage,
                                         Val(discount).startsAt, Val(discount).endsAt, at))],
          err |-> NoErr]

ApplyDiscount(a, discount, at) ==
    IF a.status # ProductStatusActive THEN [p |-> a, err |-> ErrProductNotActive]
    ELSE IF IsNil(discount) THEN [p |-> a, err |-> ErrDiscountNil]
    ELSE IF ~IsValidAt(Val(discount), at) THEN [p |-> a, err |-> ErrInvalidDiscountPeriod]
    ELSE [p |-> [a EXCEPT !.discount = discount,
                          !.changes = MarkDirty(@, FieldDiscount),
                          !.events = Append(@, NewDiscountAppliedEvent(
                                         a.id, Val(discount).percentage,
                                         Val(discount).startsAt, Val(discount).endsAt, at))],
          err |-> NoErr]

\* A variant that clears the discount without marking the field dirty.
RemoveDiscountNoDirty(a, at) ==
    IF IsNil(a.discount) THEN [p |-> a, err |-> ErrNoActiveDiscount]
    ELSE [p |-> [a EXCEPT !.discount = Nil,
                          !.events = Append(@, NewDiscountRemovedEvent(a.id, at))],
          err |-> NoErr]

RemoveDiscount(a, at) ==
    IF IsNil(a.discount) THEN [p |-> a, err |-> ErrNoActiveDiscount]
    ELSE [p |-> [a EXCEPT !.discount = Nil,
                          !.changes = MarkDirty(@, FieldDiscount),
                          !.events = Append(@, NewDiscountRemovedEvent(a.id, at))],
          err |-> NoErr]

\* `for f := range p.changes.dirty`: the slice the loop builds holds each key
\* of the map once, in an order Go leaves unspecified.
RangeDirty(c) ==
    {s \in [1..Cardinality(c) -> c] : \A f \in c : \E i \in 1..Cardinality(c) : s[i] = f}

\* A variant that lists only the first dirty field.
RecordUpdateFirstOnly(a, at, dirty) ==
    IF Len(dirty) = 0 THEN a
    ELSE [a EXCEPT !.events = Append(@, NewProductUpdatedEvent(a.id, <<dirty[1]>>, at))]

\* RecordUpdate, dirty being the slice its range loop built.
RecordUpdate(a, at, dirty) ==
    IF Len(dirty) = 0 THEN a
    ELSE [a EXCEPT !.events = Append(@, NewProductUpdatedEvent(a.id, dirty, at))]

----------------------------------------------------------------------------
(* Persistence: rows, mutations, repositories *)

ProductsTable == "products"
OutboxTable == "outbox_events"
StatusPending == "pending"

\* uuid.NewString(): a value different from every key in use.  The pool is
\* ordered and the first unused value is taken, which is one representative
\* of "any fresh value".
UUIDs == <<"u01", "u02", "u03", "u04", "u05", "u06", "u07", "u08", "u09", "u10",
           "u11", "u12", "u13", "u14", "u15", "u16">>

UsedKeys(prods, obx) ==
    {r.product_id : r \in prods} \cup {r.event_id : r \in obx}

\* The k-th fresh uuid given the keys in use.
NewUUID(used, k) ==
    LET free == SelectSeq(UUIDs, LAMBDA u : u \notin used) IN free[k]

\* fmt.Sprintf("%g", f) for the numbers a stored discount_percent can hold
\* (f in tenths of a percent).
formatDecimal(f) ==
    CASE f = 0 -> "0"
      [] f = 100 -> "10"
      [] f = 125 -> "12.5"
      [] f = 1000 -> "100"
      [] OTHER -> "?"

\* ProductRow.ToDomain
ToDomain(r) ==
    LET money == NewMoney(r.base_price_numerator, "VND")
        hasDiscount == ~IsNil(r.discount_percent) /\ ~IsNil(r.discount_start_date)
                       /\ ~IsNil(r.discount_end_date)
        disc == IF hasDiscount
                THEN NewDiscount(formatDecimal(Val(r.discount_percent)),
                                 Val(r.discount_start_date), Val(r.discount_end_date))
                ELSE [d |-> Nil, err |-> NoErr]
    IN IF money.err # NoErr THEN [p |-> Nil, err |-> money.err]
       ELSE IF disc.err # NoErr THEN [p |-> Nil, err |-> disc.err]
       ELSE Reconstitute(r.product_id, r.name, r.description, r.category,
                         money.m, disc.d, r.status)

\* ProductRepo.GetByID
GetByID(prods, id) ==
    IF \A r \in prods : r.product_id # id
    THEN [p |-> Nil, err |-> ErrProductNotFound]
    ELSE ToDomain(CHOOSE r \in prods : r.product_id = id)

\* A mutation is [op, table, cols]; cols maps column names to values.  The
\* commit-timestamp columns hold the placeholder spanner.CommitTimestamp,
\* which the commit replaces by its timestamp.
CommitTimestamp == <<"spanner.commit_timestamp()">>
InsertMap(table, cols) == [op |-> "insert", table |-> table, cols |-> cols]
UpdateMap(table, cols) == [op |-> "update", table |-> table, cols |-> cols]

DiscountCols(d) ==
    IF ~IsNil(d)
    THEN ("discount_percent" :> Some(PercentageFloat64(Val(d)))) @@
         ("discount_start_date" :> Some(Val(d).startsAt)) @@
         ("discount_end_date" :> Some(Val(d).endsAt))
    ELSE ("discount_percent" :> Nil) @@ ("discount_start_date" :> Nil) @@
         ("discount_end_date" :> Nil)

\* The empty map of column values.
NoCols == [c \in {} |-> Nil]

\* ProductRepo.InsertMut
ProductRepo_InsertMut(a) ==
    LET row == ("product_id" :> a.id) @@ ("name" :> a.name) @@
               ("description" :> a.description) @@ ("category" :> a.category) @@
               ("base_price_numerator" :> Val(a.basePrice).amount) @@
               ("base_price_denominator" :> 1) @@
               ("status" :> a.status) @@
               ("created_at" :> CommitTimestamp) @@ ("updated_at" :> CommitTimestamp)
    IN Some(InsertMap(ProductsTable,
                      IF ~IsNil(a.discount) THEN DiscountCols(a.discount) @@ row ELSE row))

\* A variant of UpdateMut that never writes the category column.
ProductRepo_UpdateMutNoCategory(a) ==
    LET c == a.changes
        base == ("product_id" :> a.id) @@ ("updated_at" :> CommitTimestamp)
        u1 == IF Dirty(c, FieldName) THEN ("name" :> a.name) ELSE NoCols
        u2 == IF Dirty(c, FieldDescription) THEN ("description" :> a.description) ELSE NoCols
        u4 == IF Dirty(c, FieldBasePrice)
              THEN ("base_price_numerator" :> Val(a.basePrice).amount) @@
                   ("base_price_denominator" :> 1)
              ELSE NoCols
        u5 == IF Dirty(c, FieldStatus) THEN ("status" :> a.status) ELSE NoCols
        u6 == IF Dirty(c, FieldDiscount) THEN DiscountCols(a.discount) ELSE NoCols
        updates == base @@ u1 @@ u2 @@ u4 @@ u5 @@ u6
    IN IF Cardinality(DOMAIN updates) = 2 THEN Nil
       ELSE Some(UpdateMap(ProductsTable, updates))

\* A variant of UpdateMut that writes the name column whether or not the
\* name is dirty.
ProductRepo_UpdateMutWithName(a) ==
    LET c == a.changes
        base == ("product_id" :> a.id) @@ ("updated_at" :> CommitTimestamp)
        u1 == ("name" :> a.name)
        u2 == IF Dirty(c, FieldDescription) THEN ("description" :> a.description) ELSE NoCols
        u3 == IF Dirty(c, FieldCategory) THEN ("category" :> a.category) ELSE NoCols
        u4 == IF Dirty(c, FieldBasePrice)
              THEN ("base_price_numerator" :> Val(a.basePrice).amount) @@
                   ("base_price_denominator" :> 1)
              ELSE NoCols
        u5 == IF Dirty(c, FieldStatus) THEN ("status" :> a.status) ELSE NoCols
        u6 == IF Dirty(c, FieldDiscount) THEN DiscountCols(a.discount) ELSE NoCols
        updates == base @@ u1 @@ u2 @@ u3 @@ u4 @@ u5 @@ u6
    IN IF Cardinality(DOMAIN updates) = 2 THEN Nil
       ELSE Some(UpdateMap(ProductsTable, updates))

\* ProductRepo.UpdateMut
ProductRepo_UpdateMut(a) ==
    LET c == a.changes
        base == ("product_id" :> a.id) @@ ("updated_at" :> CommitTimestamp)
        u1 == IF Dirty(c, FieldName) THEN ("name" :> a.name) ELSE NoCols
        u2 == IF Dirty(c, FieldDescription) THEN ("description" :> a.description) ELSE NoCols
        u3 == IF Dirty(c, FieldCategory) THEN ("category" :> a.category) ELSE NoCols
        u4 == IF Dirty(c, FieldBasePrice)
              THEN ("base_price_numerator" :> Val(a.basePrice).amount) @@
                   ("base_price_denominator" :> 1)
              ELSE NoCols
        u5 == IF Dirty(c, FieldStatus) THEN ("status" :> a.status) ELSE NoCols
        u6 == IF Dirty(c, FieldDiscount) THEN DiscountCols(a.discount) ELSE NoCols
        updates == base @@ u1 @@ u2 @@ u3 @@ u4 @@ u5 @@ u6
    IN IF Cardinality(DOMAIN updates) = 2 THEN Nil
       ELSE Some(UpdateMap(ProductsTable, updates))

\* marshalPayload: the JSON object of each known event type; an unknown type,
\* or an error from json.Marshal (marshalOk = FALSE), is an error.
marshalPayload(event, marshalOk) ==
    LET data ==
        CASE event.eventName = "product.created" ->
                 Some([product_id |-> event.productID, name |-> event.data.name,
                       category |-> event.data.category, status |-> event.data.status])
          [] event.eventName = "product.updated" ->
                 Some([product_id |-> event.productID,
                       changed_fields |-> event.data.changedFields])
          [] event.eventName = "product.activated" ->
                 Some([product_id |-> event.productID])
          [] event.eventName = "product.deactivated" ->
                 Some([product_id |-> event.productID])
          [] event.eventName = "product.discount_applied" ->
                 Some([product_id |-> event.productID,
                       percentage |-> event.data.percentage,
                       starts_at |-> event.data.startsAt,
                       ends_at |-> event.data.endsAt])
          [] event.eventName = "product.discount_removed" ->
                 Some([product_id |-> event.productID])
          [] OTHER -> Nil
    IN IF IsNil(data) THEN [payload |-> Nil, err |-> "unknown event type"]
       ELSE IF ~marshalOk THEN [payload |-> Nil, err |-> "json: marshal error"]
       ELSE [payload |-> data, err |-> NoErr]

\* EventRepo.InsertMut: nil when the payload cannot be serialised.
EventRepo_InsertMut(event, uuid, marshalOk) ==
    LET aggregateID == event.productID
        m == marshalPayload(event, marshalOk)
    IN IF m.err # NoErr THEN Nil
       ELSE Some(InsertMap(OutboxTable,
                ("event_id" :> uuid) @@ ("event_type" :> event.eventName) @@
                ("aggregate_id" :> aggregateID) @@ ("payload" :> Val(m.payload)) @@
                ("status" :> StatusPending) @@ ("created_at" :> CommitTimestamp)))

----------------------------------------------------------------------------
(* Commit plan and Applier *)

NewPlan == <<>>
Plan_Add(plan, mut) == Append(plan, mut)

ProductColumns ==
    {"product_id", "name", "description", "category", "base_price_numerator",
     "base_price_denominator", "discount_percent", "discount_start_date",
     "discount_end_date", "status", "created_at", "updated_at", "archived_at"}

OutboxColumns ==
    {"event_id", "event_type", "aggregate_id", "payload", "status", "created_at",
     "processed_at"}

\* Columns declared OPTIONS (allow_commit_timestamp = true): the only columns
\* the repositories write the placeholder spanner.CommitTimestamp to.
CommitTsColumns == {"created_at", "updated_at"}

Columns(table) == IF table = ProductsTable THEN ProductColumns ELSE OutboxColumns
KeyColumn(table) == IF table = ProductsTable THEN "product_id" ELSE "event_id"
TableOf(store, table) == IF table = ProductsTable THEN store.products ELSE store.outbox

\* The row a mutation writes over `old` (NULL columns when inserting).
WriteRow(m, old, ts) ==
    [c \in Columns(m.table) |->
        IF c \in DOMAIN m.cols
        THEN (IF c \in CommitTsColumns THEN ts ELSE m.cols[c])
        ELSE old[c]]

NullRow(table) == [c \in Columns(table) |-> Nil]

\* Whether Spanner accepts the mutation: an insert needs a new key, an update
\* an existing row.
Applicable(store, m) ==
    LET k == KeyColumn(m.table)
        exists == \E r \in TableOf(store, m.table) : r[k] = m.cols[k]
    IN IF m.op = "insert" THEN ~exists ELSE exists

ApplyMutation(store, m, ts) ==
    LET k == KeyColumn(m.table)
        tbl == TableOf(store, m.table)
        new == IF m.op = "insert"
               THEN tbl \cup {WriteRow(m, NullRow(m.table), ts)}
               ELSE {IF r[k] = m.cols[k] THEN WriteRow(m, r, ts) ELSE r : r \in tbl}
    IN IF m.table = ProductsTable THEN [store EXCEPT !.products = new]
       ELSE [store EXCEPT !.outbox = new]

\* The store after the first n mutations of the plan, and whether each of
\* them was applicable.
RECURSIVE ApplyPrefix(_, _, _, _)
ApplyPrefix(store, plan, n, ts) ==
    IF n = 0 THEN [ok |-> TRUE, store |-> store]
    ELSE LET prev == ApplyPrefix(store, plan, n - 1, ts) IN
         IF ~prev.ok \/ ~Applicable(prev.store, plan[n])
         THEN [ok |-> FALSE, store |-> prev.store]
         ELSE [ok |-> TRUE, store |-> ApplyMutation(prev.store, plan[n], ts)]

\* What the storage layer can answer to one Apply call.
ApplyOutcomes == {"ok", "spanner unavailable"}

\* A variant that sends the mutations in one call each, so that a failure
\* after the first call leaves the first mutation applied.
Committer_ApplyEach(store, plan, outcome, ts) ==
    IF outcome = "ok" \/ Len(plan) = 0
    THEN [store |-> ApplyPrefix(store, plan, Len(plan), ts).store,
          err |-> IF outcome = "ok" THEN NoErr ELSE outcome]
    ELSE [store |-> ApplyPrefix(store, plan, 1, ts).store, err |-> outcome]

\* Committer.Apply: one spanner.Client.Apply call with every mutation of the
\* plan, which Spanner commits in a single transaction or not at all.
Committer_Apply(store, plan, outcome, ts) ==
    LET all == ApplyPrefix(store, plan, Len(plan), ts) IN
    IF outcome # "ok" THEN [store |-> store, err |-> outcome]
    ELSE IF ~all.ok THEN [store |-> store, err |-> "spanner: mutation rejected"]
    ELSE [store |-> all.store, err |-> NoErr]

----------------------------------------------------------------------------
(* Use cases.  Each Execute is one action.  `last` records the execution:  *)
(* the request, what was loaded, the aggregate when Execute returned, the  *)
(* plan handed to the Applier (submitted = Apply was called), the tables   *)
(* before the call, and the result returned.                               *)

Store == [products |-> products, outbox |-> outbox]
EmptyStore == [products |-> {}, outbox |-> {}]

\* Inputs of the requests.
ReqNames == {"", "Laptop", "Desk"}
ReqDescriptions == {"a product", ""}
ReqCategories == {"electronics", "home"}
ReqPercentages == {"10", "100.5", "-1", "abc"}
GhostID == "non-existent-id"
ReqProductIDs == {r.product_id : r \in products} \cup {GhostID}
OptionOf(S) == {Nil} \cup {Some(v) : v \in S}

\* The loop shared by the interactors: the product mutation when there is
\* one, then the mutation of each pending event, skipping nil mutations.
\* failing is the set of positions whose payload json.Marshal rejects.
BuildPlan(productMut, events, used, failing) ==
    LET F[i \in 0..Len(events)] ==
            IF i = 0
            THEN (IF ~IsNil(productMut) THEN Plan_Add(NewPlan, Val(productMut)) ELSE NewPlan)
            ELSE LET mut == EventRepo_InsertMut(events[i], NewUUID(used, i),
                                                i \notin failing)
                 IN IF ~IsNil(mut) THEN Plan_Add(F[i - 1], Val(mut)) ELSE F[i - 1]
    IN F[Len(events)]

\* A variant that reports every failure of Apply as one generic error.
SubmitGenericError(store, ts, a, productMut, failing, outcome) ==
    LET used == UsedKeys(store.products, store.outbox) \cup {a.id}
        plan == BuildPlan(productMut, a.events, used, failing)
        res == Committer_Apply(store, plan, outcome, ts + 1)
    IN [plan |-> plan, store |-> res.store,
        err |-> IF res.err = NoErr THEN NoErr ELSE "internal error",
        ts |-> IF res.err = NoErr THEN ts + 1 ELSE ts]

\* The plan an interactor builds for aggregate a and what Apply makes of it.
Submit(store, ts, a, productMut, failing, outcome) ==
    LET used == UsedKeys(store.products, store.outbox) \cup {a.id}
        plan == BuildPlan(productMut, a.events, used, failing)
        res == Committer_Apply(store, plan, outcome, ts + 1)
    IN [plan |-> plan, store |-> res.store, err |-> res.err,
        ts |-> IF res.err = NoErr THEN ts + 1 ELSE ts]

\* Execute returns err before a plan is built.
Returns(uc, req, loaded, agg, err) ==
    /\ last' = [uc |-> uc, req |-> req, ret |-> "", err |-> err, submitted |-> FALSE,
                plan |-> NewPlan, loaded |-> loaded, agg |-> agg, failing |-> {},
                outcome |-> "", before |-> Store]
    /\ UNCHANGED <<products, outbox, commitTs>>

\* Execute builds the plan for aggregate a and returns what Apply returns.
Submits(uc, req, loaded, a, productMut) ==
    \E failing \in SUBSET (1..Len(a.events)), outcome \in ApplyOutcomes :
        \E res \in {Submit(Store, commitTs, a, productMut, failing, outcome)} :
           /\ last' = [uc |-> uc, req |-> req,
                       ret |-> IF uc = "create" /\ res.err = NoErr THEN a.id ELSE "",
                       err |-> res.err, submitted |-> TRUE, plan |-> res.plan,
                       loaded |-> loaded, agg |-> Some(a), failing |-> failing,
                       outcome |-> outcome, before |-> Store]
           /\ products' = res.store.products
           /\ outbox' = res.store.outbox
           /\ commitTs' = res.ts

\* CreateProductInteractor.Execute
CreateProduct ==
    /\ call.method = "none"
    /\ steps < MaxExecs
    /\ steps' = steps + 1
    /\ \E name \in ReqNames, description \in {"a product"}, category \in {"electronics"} :
        LET req == [Name |-> name, Description |-> description, Category |-> category]
            money == NewMoney(basePrice, "USD")
            id == NewUUID(UsedKeys(products, outbox), 1)
            np == NewProduct(id, req.Name, req.Description, req.Category, money.m, now)
        IN IF money.err # NoErr THEN Returns("create", req, Nil, Nil, money.err)
           ELSE IF np.err # NoErr THEN Returns("create", req, Nil, Nil, np.err)
           ELSE Submits("create", req, Nil, Val(np.p), ProductRepo_InsertMut(Val(np.p)))
    /\ UNCHANGED <<now, p, call, calc>>

\* UpdateProductInteractor.Execute
UpdateProduct ==
    /\ call.method = "none"
    /\ steps < MaxExecs
    /\ steps' = steps + 1
    /\ \E id \in ReqProductIDs, name \in OptionOf(ReqNames),
          description \in OptionOf(ReqDescriptions), category \in OptionOf(ReqCategories) :
        LET req == [ProductID |-> id, Name |-> name, Description |-> description,
                    Category |-> category]
            got == GetByID(products, req.ProductID)
            a0 == Val(got.p)
            r1 == IF ~IsNil(req.Name) THEN SetName(a0, Val(req.Name))
                  ELSE [p |-> a0, err |-> NoErr]
            a2 == IF ~IsNil(req.Description) THEN SetDescription(r1.p, Val(req.Description)).p
                  ELSE r1.p
            a3 == IF ~IsNil(req.Category) THEN SetCategory(a2, Val(req.Category)).p
                  ELSE a2
        IN IF got.err # NoErr THEN Returns("update", req, Nil, Nil, got.err)
           ELSE IF r1.err # NoErr THEN Returns("update", req, got.p, Some(r1.p), r1.err)
           ELSE \E dirty \in RangeDirty(a3.changes) :
                  \E a4 \in {RecordUpdate(a3, now, dirty)} :
                     Submits("update", req, got.p, a4, ProductRepo_UpdateMut(a4))
    /\ UNCHANGED <<now, p, call, calc>>

\* ActivateProductInteractor.Execute
ActivateProduct ==
    /\ call.method = "none"
    /\ steps < MaxExecs
    /\ steps' = steps + 1
    /\ \E id \in ReqProductIDs :
        LET req == [ProductID |-> id]
            got == GetByID(products, req.ProductID)
            r == Activate(Val(got.p), now)
        IN IF got.err # NoErr THEN Returns("activate", req, Nil, Nil, got.err)
           ELSE IF r.err # NoErr THEN Returns("activate", req, got.p, Some(r.p), r.err)
           ELSE Submits("activate", req, got.p, r.p, ProductRepo_UpdateMut(r.p))
    /\ UNCHANGED <<now, p, call, calc>>

\* DeactivateProductInteractor.Execute
DeactivateProduct ==
    /\ call.method = "none"
    /\ steps < MaxExecs
    /\ steps' = steps + 1
    /\ \E id \in ReqProductIDs :
        LET req == [ProductID |-> id]
            got == GetByID(products, req.ProductID)
            r == Deactivate(Val(got.p), now)
        IN IF got.err # NoErr THEN Returns("deactivate", req, Nil, Nil, got.err)
           ELSE IF r.err # NoErr THEN Returns("deactivate", req, got.p, Some(r.p), r.err)
           ELSE Submits("deactivate", req, got.p, r.p, ProductRepo_UpdateMut(r.p))
    /\ UNCHANGED <<now, p, call, calc>>

\* ApplyDiscountInteractor.Execute
ApplyDiscountUC ==
    /\ call.method = "none"
    /\ steps < MaxExecs
    /\ steps' = steps + 1
    /\ \E id \in ReqProductIDs, pct \in ReqPercentages, s \in Times, e \in Times :
        LET req == [ProductID |-> id, Percentage |-> pct, StartsAt |-> s, EndsAt |-> e]
            got == GetByID(products, req.ProductID)
            nd == NewDiscount(req.Percentage, req.StartsAt, req.EndsAt)
            r == ApplyDiscount(Val(got.p), nd.d, now)
        IN IF got.err # NoErr THEN Returns("applyDiscount", req, Nil, Nil, got.err)
           ELSE IF nd.err # NoErr THEN Returns("applyDiscount", req, got.p, got.p, nd.err)
           ELSE IF r.err # NoErr THEN Returns("applyDiscount", req, got.p, Some(r.p), r.err)
           ELSE Submits("applyDiscount", req, got.p, r.p, ProductRepo_UpdateMut(r.p))
    /\ UNCHANGED <<now, p, call, calc>>

\* RemoveDiscountInteractor.Execute
RemoveDiscountUC ==
    /\ call.method = "none"
    /\ steps < MaxExecs
    /\ steps' = steps + 1
    /\ \E id \in ReqProductIDs :
        LET req == [ProductID |-> id]
            got == GetByID(products, req.ProductID)
            r == RemoveDiscount(Val(got.p), now)
        IN IF got.err # NoErr THEN Returns("removeDiscount", req, Nil, Nil, got.err)
           ELSE IF r.err # NoErr THEN Returns("removeDiscount", req, got.p, Some(r.p), r.err)
           ELSE Submits("removeDiscount", req, got.p, r.p, ProductRepo_UpdateMut(r.p))
    /\ UNCHANGED <<now, p, call, calc>>

\* The ticker's reading advances.
Tick ==
    /\ now < MaxTime
    /\ now' = now + 1
    /\ UNCHANGED <<products, outbox, commitTs, last, p, call, steps, calc>>

NoExecution ==
    [uc |-> "none", req |-> [ProductID |-> ""], ret |-> "", err |-> NoErr,
     submitted |-> FALSE, plan |-> NewPlan, loaded |-> Nil, agg |-> Nil,
     failing |-> {}, outcome |-> "", before |-> EmptyStore]

\* Tables Spec starts from: empty, or as earlier successful executions at
\* time 0 left them (every event serialised, every commit succeeded):
\* CreateProduct, then ApplyDiscount, then DeactivateProduct.
AfterCreate ==
    LET a == Val(NewProduct(NewUUID({}, 1), "Laptop", "a product", "electronics",
                            NewMoney(basePrice, "USD").m, 0).p)
    IN Submit(EmptyStore, 0, a, ProductRepo_InsertMut(a), {}, "ok")

AfterApplyDiscount(t) ==
    LET a == ApplyDiscount(Val(GetByID(t.store.products, NewUUID({}, 1)).p),
                           NewDiscount("10", 0, 2).d, 0).p
    IN Submit(t.store, t.ts, a, ProductRepo_UpdateMut(a), {}, "ok")

AfterDeactivate(t) ==
    LET a == Deactivate(Val(GetByID(t.store.products, NewUUID({}, 1)).p), 0).p
    IN Submit(t.store, t.ts, a, ProductRepo_UpdateMut(a), {}, "ok")

\* The aggregate SpecDomain starts from when Spec is run, and vice versa.
IdleAggregate ==
    Val(Reconstitute("u01", "Laptop", "a product", "electronics",
                     NewMoney(basePrice, "USD").m, Nil, ProductStatusActive).p)
NoCall == [method |-> "none", arg |-> Nil, at |-> 0, before |-> IdleAggregate,
           err |-> NoErr, ret |-> Nil]

\* The pricing calculator has not been called.
NoCalc == [basePrice |-> Nil, discount |-> Nil, op |-> "none", at |-> 0,
           m |-> Nil, err |-> NoErr, discounted |-> FALSE]

Init ==
    /\ now = 0
    /\ calc = NoCalc
    /\ \E t1 \in {AfterCreate} : \E t2 \in {AfterApplyDiscount(t1)} :
       \E t3 \in {AfterDeactivate(t2)} :
       \E t \in {[store |-> EmptyStore, ts |-> 0, err |-> NoErr, plan |-> NewPlan],
                 t1, t2, t3} :
        /\ products = t.store.products
        /\ outbox = t.store.outbox
        /\ commitTs = t.ts
    /\ last = NoExecution
    /\ p = IdleAggregate
    /\ call = NoCall
    /\ steps = 0

Next ==
    \/ CreateProduct
    \/ UpdateProduct
    \/ ActivateProduct
    \/ DeactivateProduct
    \/ ApplyDiscountUC
    \/ RemoveDiscountUC
    \/ Tick

Spec == Init /\ [][Next]_vars

----------------------------------------------------------------------------
(* SpecDomain: business methods called on one aggregate instance.  `call`  *)
(* records the latest call: the method, its argument, the ticker reading   *)
(* passed as now, the aggregate before the call and the error returned.    *)

ArgNames == {"", "Laptop", "Desk"}
ArgDescriptions == {"a product", ""}
ArgCategories == {"electronics", "home"}
ArgPercentages == {"10", "100"}
ArgMoneys == {NewMoney(basePrice, "USD").m, NewMoney(basePrice, "VND").m,
              NewMoney(basePrice + 150, "USD").m}
\* nil, and every Discount NewDiscount returns.
ArgDiscounts ==
    {Nil} \cup {NewDiscount(pct, s, e).d : pct \in ArgPercentages, s \in Times, e \in Times}

\* The constructor calls a caller can make: NewProduct, and Reconstitute on
\* any persisted state, with the inputs of each.
ConstructorCalls ==
    {[method |-> "NewProduct",
      arg |-> [id |-> "u01", name |-> name, description |-> "a product",
               category |-> "electronics", basePrice |-> price, at |-> 0],
      res |-> NewProduct("u01", name, "a product", "electronics", price, 0)] :
        name \in {"", "Laptop"}, price \in {Nil, NewMoney(basePrice, "USD").m}}
    \cup
    {[method |-> "Reconstitute",
      arg |-> [id |-> id, name |-> name, description |-> "a product",
               category |-> "electronics", basePrice |-> price, discount |-> d,
               status |-> st],
      res |-> Reconstitute(id, name, "a product", "electronics", price, d, st)] :
        id \in {"", "u01"}, name \in {"", "Laptop"},
        price \in {Nil, NewMoney(basePrice, "VND").m},
        d \in {Nil} \cup {NewDiscount("10", s, e).d : s \in Times, e \in Times},
        st \in {ProductStatusActive, ProductStatusInactive, "archived"}}

\* The aggregate after construction; when the constructor returned an error
\* there is no aggregate to call (p is then the idle placeholder).
InitDomain ==
    /\ now = 0
    /\ calc = NoCalc
    /\ products = {}
    /\ outbox = {}
    /\ commitTs = 0
    /\ last = NoExecution
    /\ steps = 0
    /\ \E c \in ConstructorCalls :
        /\ p = IF c.res.err = NoErr THEN Val(c.res.p) ELSE IdleAggregate
        /\ call = [method |-> c.method, arg |-> c.arg, at |-> 0, before |-> IdleAggregate,
                   err |-> c.res.err, ret |-> c.res.p]

\* The caller holds an aggregate: the constructor did not fail.
Constructed == call.method # "none" /\ ~IsNil(call.ret)

\* One call of a business method: res is what the method returned; ret is
\* the aggregate the caller holds after it.
Called(method, arg, res) ==
    /\ Constructed
    /\ steps < MaxCalls
    /\ steps' = steps + 1
    /\ p' = res.p
    /\ call' = [method |-> method, arg |-> arg, at |-> now, before |-> p, err |-> res.err,
                ret |-> Some(res.p)]
    /\ UNCHANGED <<now, products, outbox, commitTs, last, calc>>

DoSetName == \E name \in ArgNames : Called("SetName", Some(name), SetName(p, name))

DoSetDescription ==
    \E d \in ArgDescriptions : Called("SetDescription", Some(d), SetDescription(p, d))

DoSetCategory ==
    \E c \in ArgCategories : Called("SetCategory", Some(c), SetCategory(p, c))

DoSetBasePrice ==
    \E m \in {Nil} \cup ArgMoneys : Called("SetBasePrice", m, SetBasePrice(p, m))

DoActivate == Called("Activate", Nil, Activate(p, now))

DoDeactivate == Called("Deactivate", Nil, Deactivate(p, now))

DoApplyDiscount ==
    \E d \in ArgDiscounts : Called("ApplyDiscount", d, ApplyDiscount(p, d, now))

DoRemoveDiscount == Called("RemoveDiscount", Nil, RemoveDiscount(p, now))

DoRecordUpdate ==
    \E dirty \in RangeDirty(p.changes) :
        Called("RecordUpdate", Nil, [p |-> RecordUpdate(p, now, dirty), err |-> NoErr])

NextDomain ==
    \/ DoSetName
    \/ DoSetDescription
    \/ DoSetCategory
    \/ DoSetBasePrice
    \/ DoActivate
    \/ DoDeactivate
    \/ DoApplyDiscount
    \/ DoRemoveDiscount
    \/ DoRecordUpdate
    \/ Tick

SpecDomain == InitDomain /\ [][NextDomain]_vars

\* A run of SpecAll starts as a run of Spec or as a run of SpecDomain and
\* stays one: the use cases run while no aggregate is under test
\* (call.method = "none"), the business methods while one is.
InitAll == Init \/ InitDomain

NextAll == Next \/ NextDomain

SpecAll == InitAll /\ [][NextAll]_vars

----------------------------------------------------------------------------
(* The pricing calculator (SpecPricing): a base price and a discount are    *)
(* fixed at the start, and the calculator is asked about them at the        *)
(* ticker's reading, any number of times as the time advances.              *)

\* Amounts of the base prices: zero, one, amounts whose discounted value
\* is a tie or not a float64, and an int64 above 2^53 that is not a float64.
PricingAmounts ==
    {Wide(0), Wide(1), Wide(basePrice), Wide(basePrice + 150),
     WAdd(Pow2(Float64Precision), Wide(3))}

\* Money values NewMoney accepts (amount not negative, currency of three
\* letters), or no Money.
PricingPrices ==
    {Nil} \cup {Some([amount |-> a, currency |-> c]) :
                    a \in PricingAmounts, c \in {"USD", "VND"}}

\* Discounts NewDiscount accepts, or no Discount.
PricingDiscounts ==
    {Nil} \cup {d \in {NewDiscount(pct, s, e).d :
                            pct \in {"0", "7", "10", "12.5", "100"},
                            s \in Times, e \in Times} : ~IsNil(d)}

InitPricing ==
    /\ now = 0
    /\ products = {}
    /\ outbox = {}
    /\ commitTs = 0
    /\ last = NoExecution
    /\ p = IdleAggregate
    /\ call = NoCall
    /\ steps = 0
    /\ \E b \in PricingPrices : \E d \in PricingDiscounts :
        calc = [NoCalc EXCEPT !.basePrice = b, !.discount = d]

DoEffectivePrice ==
    /\ \E r \in {EffectivePrice(calc.basePrice, calc.discount, now)} :
        calc' = [calc EXCEPT !.op = "EffectivePrice", !.at = now, !.m = r.m,
                             !.err = r.err, !.discounted = FALSE]
    /\ UNCHANGED <<now, products, outbox, commitTs, last, p, call, steps>>

DoDiscountAmount ==
    /\ \E r \in {DiscountAmount(calc.basePrice, calc.discount, now)} :
        calc' = [calc EXCEPT !.op = "DiscountAmount", !.at = now, !.m = r.m,
                             !.err = r.err, !.discounted = FALSE]
    /\ UNCHANGED <<now, products, outbox, commitTs, last, p, call, steps>>

DoIsDiscounted ==
    /\ calc' = [calc EXCEPT !.op = "IsDiscounted", !.at = now, !.m = Nil,
                            !.err = NoErr,
                            !.discounted = IsDiscounted(calc.discount, now)]
    /\ UNCHANGED <<now, products, outbox, commitTs, last, p, call, steps>>

NextPricing ==
    \/ DoEffectivePrice
    \/ DoDiscountAmount
    \/ DoIsDiscounted
    \/ Tick

SpecPricing == InitPricing /\ [][NextPricing]_vars

----------------------------------------------------------------------------
(* The Money value object (SpecMoney): two Money values, the second         *)
(* possibly nil, are fixed at the start and the operations of the first are *)
(* called in any order.  `calc` holds the operands as they are after the    *)
(* call, the operation, its argument and what it returned.                  *)

\* Amounts of the operands: small ones and the largest int64 values.
MoneyAmounts ==
    {Wide(0), Wide(1), Wide(basePrice), Pow2(Int64Bits - 2), MaxInt64}

\* Money values NewMoney accepts.
Moneys == {[amount |-> a, currency |-> c] : a \in MoneyAmounts, c \in {"USD", "VND"}}

\* The factors passed to Multiply: -1, 0, 0.5, 1 and 2.
MoneyFactors ==
    {[neg |-> TRUE, m |-> Wide(1), e |-> 0], [neg |-> FALSE, m |-> Wide(0), e |-> 0],
     [neg |-> FALSE, m |-> Wide(1), e |-> -1], [neg |-> FALSE, m |-> Wide(1), e |-> 0],
     [neg |-> FALSE, m |-> Wide(1), e |-> 1]}

\* The percentages passed to ApplyPercentageDiscount, in tenths of a
\* percent: -1, 0, 10, 100 and 100.5.
MoneyPercentages == {-10, 0, 100, 1000, 1005}

NoMoneyCall == [self |-> Nil, other |-> Nil, op |-> "none", arg |-> Nil,
                m |-> Nil, err |-> NoErr, b |-> FALSE]

InitMoney ==
    /\ now = 0
    /\ products = {}
    /\ outbox = {}
    /\ commitTs = 0
    /\ last = NoExecution
    /\ p = IdleAggregate
    /\ call = NoCall
    /\ steps = 0
    /\ \E m \in Moneys : \E other \in {Nil} \cup {Some(o) : o \in Moneys} :
        calc = [NoMoneyCall EXCEPT !.self = Some(m), !.other = other]

\* A method of Money returned res; Money has no method that assigns to the
\* receiver or to the argument.
MoneyReturned(op, arg, res, b) ==
    /\ calc' = [calc EXCEPT !.op = op, !.arg = arg, !.m = res.m, !.err = res.err,
                            !.b = b]
    /\ UNCHANGED <<now, products, outbox, commitTs, last, p, call, steps>>

DoNewMoney ==
    \E amount \in {-1, 0, basePrice}, currency \in Currencies :
        LET res == NewMoney(amount, currency)
        IN MoneyReturned("NewMoney", Some([amount |-> amount, currency |-> currency]),
                         [m |-> IF IsNil(res.m) THEN Nil ELSE Some(WideMoney(Val(res.m))),
                          err |-> res.err],
                         FALSE)

DoAdd == MoneyReturned("Add", Nil, Add(Val(calc.self), calc.other), FALSE)

DoSubtract == MoneyReturned("Subtract", Nil, Subtract(Val(calc.self), calc.other), FALSE)

DoIsGreaterThan ==
    LET res == IsGreaterThan(Val(calc.self), calc.other)
    IN MoneyReturned("IsGreaterThan", Nil, [m |-> Nil, err |-> res.err], res.b)

DoIsLessThan ==
    LET res == IsLessThan(Val(calc.self), calc.other)
    IN MoneyReturned("IsLessThan", Nil, [m |-> Nil, err |-> res.err], res.b)

DoMultiply ==
    \E factor \in MoneyFactors, o \in OutOfRangeInt64 :
        MoneyReturned("Multiply", Some(factor),
                      ConvertedInt64(Multiply(Val(calc.self), factor), o), FALSE)

DoApplyPercentageDiscount ==
    \E percentage \in MoneyPercentages, o \in OutOfRangeInt64 :
        MoneyReturned("ApplyPercentageDiscount", Some(percentage),
                      ConvertedInt64(ApplyPercentageDiscount(Val(calc.self), percentage), o),
                      FALSE)

NextMoney ==
    \/ DoNewMoney
    \/ DoAdd
    \/ DoSubtract
    \/ DoIsGreaterThan
    \/ DoIsLessThan
    \/ DoMultiply
    \/ DoApplyPercentageDiscount

SpecMoney == InitMoney /\ [][NextMoney]_vars

----------------------------------------------------------------------------
(* The Discount value object (SpecDiscount): NewDiscount is called with a   *)
(* percentage text and a period fixed at the start, and the Discount it     *)
(* returns is asked whether it is valid at the ticker's reading.            *)

\* Percentage texts: numbers inside and outside [0, 100], texts ParseFloat
\* rejects, and a text it accepts that is not a number.
DiscountTexts == {"0", "10", "12.5", "100", "100.5", "-1", "abc", "", "NaN"}

NoDiscountCall == [percentage |-> "", startsAt |-> 0, endsAt |-> 0, op |-> "none",
                   d |-> Nil, err |-> NoErr, at |-> 0, valid |-> FALSE]

InitDiscount ==
    /\ now = 0
    /\ products = {}
    /\ outbox = {}
    /\ commitTs = 0
    /\ last = NoExecution
    /\ p = IdleAggregate
    /\ call = NoCall
    /\ steps = 0
    /\ \E pct \in DiscountTexts, s \in Times, e \in Times :
        calc = [NoDiscountCall EXCEPT !.percentage = pct, !.startsAt = s, !.endsAt = e]

DoNewDiscount ==
    /\ \E res \in {NewDiscount(calc.percentage, calc.startsAt, calc.endsAt)} :
        calc' = [calc EXCEPT !.op = "NewDiscount", !.d = res.d, !.err = res.err,
                             !.at = now, !.valid = FALSE]
    /\ UNCHANGED <<now, products, outbox, commitTs, last, p, call, steps>>

DoIsValidAt ==
    /\ ~IsNil(calc.d)
    /\ calc' = [calc EXCEPT !.op = "IsValidAt", !.at = now,
                            !.valid = IsValidAt(Val(calc.d), now)]
    /\ UNCHANGED <<now, products, outbox, commitTs, last, p, call, steps>>

NextDiscount ==
    \/ DoNewDiscount
    \/ DoIsValidAt
    \/ Tick

SpecDiscount == InitDiscount /\ [][NextDiscount]_vars

----------------------------------------------------------------------------
(* The change tracker under concurrency (SpecTracker): two goroutines use   *)
(* the Changes of one aggregate instance.  A call is a sequence of steps:   *)
(* taking the lock (when the method takes one), beginning the access to the *)
(* map `dirty`, ending it, releasing the lock.  calc holds the RWMutex      *)
(* (writer, readers), the map, each goroutine's position and whether the    *)
(* Go runtime has stopped the program.                                      *)

Goroutines == {"usecase", "observer"}
TrackedFields == {FieldName, FieldStatus}

Idle == [op |-> "none", f |-> FieldName, pc |-> "idle", kind |-> "none", raced |-> FALSE]

InitTracker ==
    /\ now = 0
    /\ products = {}
    /\ outbox = {}
    /\ commitTs = 0
    /\ last = NoExecution
    /\ p = IdleAggregate
    /\ call = NoCall
    /\ steps = 0
    /\ calc = [writer |-> Nil, readers |-> {}, dirty |-> NewChanges,
               g |-> [t \in Goroutines |-> Idle], seen |-> {}, fatal |-> FALSE]

\* Goroutine t accesses the map while another goroutine writes it, or
\* writes it while another goroutine accesses it.
Races(g, t) ==
    \E u \in Goroutines \ {t} :
        /\ g[t].pc = "in" /\ g[u].pc = "in"
        /\ g[t].kind = "write" \/ g[u].kind = "write"

\* g with the goroutines now racing marked.
MarkRaces(g) == [t \in Goroutines |-> [g[t] EXCEPT !.raced = @ \/ Races(g, t)]]

TrackerStep(c) ==
    /\ ~calc.fatal
    /\ calc' = c
    /\ UNCHANGED <<now, products, outbox, commitTs, last, p, call, steps>>

\* c.mu.Lock() in MarkDirty and Clear
DoLock ==
    \E t \in Goroutines, op \in {"MarkDirty", "Clear"}, f \in TrackedFields :
        /\ calc.g[t].pc = "idle"
        /\ IsNil(calc.writer) /\ calc.readers = {}
        /\ TrackerStep([calc EXCEPT !.writer = Some(t),
                                    !.g[t] = [op |-> op, f |-> f, pc |-> "locked",
                                              kind |-> "write", raced |-> FALSE]])

\* c.mu.RLock() in Dirty
DoRLock ==
    \E t \in Goroutines, f \in TrackedFields :
        /\ calc.g[t].pc = "idle"
        /\ IsNil(calc.writer)
        /\ TrackerStep([calc EXCEPT !.readers = @ \cup {t},
                                    !.g[t] = [op |-> "Dirty", f |-> f, pc |-> "locked",
                                              kind |-> "read", raced |-> FALSE]])

\* The access to the map under the lock begins.
DoBeginAccess ==
    \E t \in Goroutines :
        /\ calc.g[t].pc = "locked"
        /\ TrackerStep([calc EXCEPT !.g = MarkRaces([@ EXCEPT ![t].pc = "in"])])

\* Product.RecordUpdate begins `for f := range p.changes.dirty`; it takes no
\* lock.
DoRangeDirty ==
    \E t \in Goroutines :
        /\ calc.g[t].pc = "idle"
        /\ TrackerStep([calc EXCEPT
                !.g = MarkRaces([@ EXCEPT ![t] = [op |-> "RecordUpdate", f |-> FieldName,
                                                  pc |-> "in", kind |-> "read",
                                                  raced |-> FALSE]])])

\* The access ends.  An access that raced has no defined outcome: the
\* runtime may stop the program ("concurrent map iteration and map write"),
\* and a read may have seen any set of fields.
DoEndAccess ==
    \E t \in Goroutines :
        /\ calc.g[t].pc = "in"
        /\ \E fatal \in (IF calc.g[t].raced THEN BOOLEAN ELSE {FALSE}),
              seen \in (IF calc.g[t].raced THEN SUBSET TrackedFields ELSE {calc.dirty}) :
            TrackerStep([calc EXCEPT
                !.fatal = fatal,
                !.seen = IF calc.g[t].kind = "read" THEN seen ELSE @,
                !.dirty = CASE calc.g[t].op = "MarkDirty" -> MarkDirty(@, calc.g[t].f)
                            [] calc.g[t].op = "Clear" -> NewChanges
                            [] OTHER -> @,
                !.g[t] = IF calc.g[t].op = "RecordUpdate" THEN Idle
                         ELSE [@ EXCEPT !.pc = "out"]])

\* The deferred c.mu.Unlock() or c.mu.RUnlock()
DoUnlock ==
    \E t \in Goroutines :
        /\ calc.g[t].pc = "out"
        /\ TrackerStep([calc EXCEPT
                !.writer = IF @ = Some(t) THEN Nil ELSE @,
                !.readers = @ \ {t},
                !.g[t] = Idle])

NextTracker ==
    \/ DoLock
    \/ DoRLock
    \/ DoBeginAccess
    \/ DoRangeDirty
    \/ DoEndAccess
    \/ DoUnlock

SpecTracker == InitTracker /\ [][NextTracker]_vars

----------------------------------------------------------------------------
(* Two concurrent executions on one product (SpecConcurrent).  An Execute   *)
(* is two steps: GetByID reads the row in a transaction of its own, and     *)
(* later the business method runs on the copy and Committer.Apply commits   *)
(* the plan.  calc holds, for each execution, its use case, its copy of the *)
(* product, the row it read and the row it found when it committed.         *)

Executions == {"e1", "e2"}
ConcurrentUseCases == {"activate", "deactivate", "applyDiscount", "removeDiscount"}

\* The id of the one product of the tables.
SharedID == NewUUID({}, 1)

\* The row of the shared product.
SharedRow(prods) == CHOOSE r \in prods : r.product_id = SharedID

NotStarted == [pc |-> "idle", uc |-> "none", loaded |-> Nil, read |-> Nil,
               found |-> Nil, err |-> NoErr, committed |-> FALSE]

InitConcurrent ==
    /\ now = 0
    /\ \E t1 \in {AfterCreate} : \E t2 \in {AfterApplyDiscount(t1)} :
       \E t3 \in {AfterDeactivate(t2)} :
       \E t \in {t1, t2, t3} :
        /\ products = t.store.products
        /\ outbox = t.store.outbox
        /\ commitTs = t.ts
    /\ last = NoExecution
    /\ p = IdleAggregate
    /\ call = NoCall
    /\ steps = 0
    /\ calc = [e \in Executions |-> NotStarted]

\* Execute begins: it.repo.GetByID(ctx, req.ProductID)
DoLoad ==
    /\ \E e \in Executions, uc \in ConcurrentUseCases :
        /\ calc[e].pc = "idle"
        /\ \E got \in {GetByID(products, SharedID)} :
            calc' = [calc EXCEPT ![e] = [@ EXCEPT !.pc = "loaded", !.uc = uc,
                                                  !.loaded = got.p,
                                                  !.read = Some(SharedRow(products)),
                                                  !.err = got.err]]
    /\ UNCHANGED <<now, products, outbox, commitTs, last, p, call, steps>>

\* The business method of use case uc on aggregate a; ApplyDiscount is given
\* a discount of 10 percent over the whole time of the model.
BusinessMethod(uc, a, at) ==
    CASE uc = "activate" -> Activate(a, at)
      [] uc = "deactivate" -> Deactivate(a, at)
      [] uc = "applyDiscount" -> ApplyDiscount(a, NewDiscount("10", 0, MaxTime).d, at)
      [] uc = "removeDiscount" -> RemoveDiscount(a, at)

\* Execute goes on: the business method, the plan and committer.Apply.
DoExecute ==
    /\ \E e \in Executions :
        /\ calc[e].pc = "loaded"
        /\ \E r \in {BusinessMethod(calc[e].uc, Val(calc[e].loaded), now)} :
            IF r.err # NoErr
            THEN /\ calc' = [calc EXCEPT ![e] = [@ EXCEPT !.pc = "done", !.err = r.err]]
                 /\ UNCHANGED <<products, outbox, commitTs>>
            ELSE \E outcome \in ApplyOutcomes :
                 \E res \in {Submit(Store, commitTs, r.p, ProductRepo_UpdateMut(r.p),
                                    {}, outcome)} :
                    /\ calc' = [calc EXCEPT ![e] =
                                    [@ EXCEPT !.pc = "done", !.err = res.err,
                                              !.found = Some(SharedRow(products)),
                                              !.committed = res.err = NoErr]]
                    /\ products' = res.store.products
                    /\ outbox' = res.store.outbox
                    /\ commitTs' = res.ts
    /\ UNCHANGED <<now, last, p, call, steps>>

NextConcurrent ==
    \/ DoLoad
    \/ DoExecute
    \/ Tick

SpecConcurrent == InitConcurrent /\ [][NextConcurrent]_vars

----------------------------------------------------------------------------
(* Properties of the use cases (Spec) *)

\* The last execution ran use case uc on a product it found.
Ran(uc) == last.uc = uc /\ ~IsNil(last.loaded)

\* The rows with the key of mutation m.
RowsOf(store, m) ==
    {r \in TableOf(store, m.table) : r[KeyColumn(m.table)] = m.cols[KeyColumn(m.table)]}

\* Mutation m of the last plan shows in the tables: its row is there and is
\* not the row that was there before the execution.
Visible(m) == RowsOf(Store, m) # {} /\ RowsOf(Store, m) # RowsOf(last.before, m)

PlanIndices == 1..Len(last.plan)
ProductMuts == {i \in PlanIndices : last.plan[i].table = ProductsTable}
OutboxMuts == {i \in PlanIndices : last.plan[i].table = OutboxTable}

\* C1: after an Execute that submitted a plan (returning success, an Applier
\* error or a cancellation) the tables show every mutation of the plan, or
\* they show none of them and are the tables of before the execution.
C1_AllOrNothing ==
    last.submitted =>
        \/ \A i \in PlanIndices : Visible(last.plan[i])
        \/ /\ \A i \in PlanIndices : ~Visible(last.plan[i])
           /\ Store = last.before

\* C1 witness: a deactivation whose plan of three mutations (the row update
\* and two events) was refused by the storage layer.
C1_Witness ==
    /\ last.uc = "deactivate"
    /\ last.submitted
    /\ Len(last.plan) = 3
    /\ last.err = "spanner unavailable"
    /\ Store = last.before

\* C2 (as the specification states it): when a pending event has no outbox
\* mutation, Execute returns an error without calling the Applier; a
\* submitted plan holds one outbox mutation per pending event.
C2_NoPlanOmitsAnEvent ==
    /\ last.failing # {} => ~last.submitted /\ last.err # NoErr
    /\ last.submitted => Cardinality(OutboxMuts) = Len(Val(last.agg).events)

\* C3: a plan built from a freshly loaded product whose events all serialise
\* holds a product-row mutation exactly when it holds an outbox mutation.
C3_RowIffEvent ==
    last.submitted /\ ~IsNil(last.loaded) /\ last.failing = {} =>
        (ProductMuts # {} <=> OutboxMuts # {})

\* C3 witness: an update that changed a field, with the row update and the
\* product.updated event in its plan.
C3_Witness ==
    /\ last.uc = "update"
    /\ last.submitted
    /\ last.failing = {}
    /\ Cardinality(ProductMuts) = 1
    /\ Cardinality(OutboxMuts) = 1
    /\ FieldCategory \in Val(last.agg).changes

SuppliesOnlyCurrentValues ==
    /\ IsNil(last.req.Name) \/ last.req.Name = Some(Val(last.loaded).name)
    /\ IsNil(last.req.Description)
          \/ last.req.Description = Some(Val(last.loaded).description)
    /\ IsNil(last.req.Category) \/ last.req.Category = Some(Val(last.loaded).category)

\* C11: UpdateProduct on a product it loaded, with a request that supplies
\* only values equal to the current ones, leaves the dirty set empty and
\* raises no event, also after RecordUpdate; the plan it submits holds no
\* product-row mutation and no outbox mutation, and the tables are unchanged.
C11_UpdateWithCurrentValues ==
    Ran("update") /\ SuppliesOnlyCurrentValues =>
        /\ Val(last.agg).changes = {}
        /\ Val(last.agg).events = <<>>
        /\ last.agg = last.loaded
        /\ last.submitted
        /\ last.plan = NewPlan
        /\ Store = last.before

\* C11 witness: an update that supplies the current name, description and
\* category, accepted by the storage layer.
C11_Witness ==
    /\ Ran("update")
    /\ last.req.Name = Some(Val(last.loaded).name)
    /\ last.req.Description = Some(Val(last.loaded).description)
    /\ last.req.Category = Some(Val(last.loaded).category)
    /\ last.plan = NewPlan
    /\ last.err = NoErr

\* The last execution asked for a product id that has no row.
LoadFails ==
    /\ last.uc \notin {"none", "create"}
    /\ \A r \in last.before.products : r.product_id # last.req.ProductID

\* The last execution loaded its product.
Loaded == last.uc \notin {"none", "create"} /\ ~LoadFails

\* The last execution stopped with err before Apply was called, changed no
\* table and returned no product id.
StoppedWith(err) ==
    /\ last.err = err
    /\ ~last.submitted
    /\ last.ret = ""
    /\ Store = last.before

\* The percentage and the period of the last ApplyDiscount request are
\* those of a valid Discount.
RequestedDiscountValid ==
    /\ last.req.Percentage \in {"0", "7", "10", "12.5", "100"}
    /\ last.req.StartsAt < last.req.EndsAt

\* C24: a mutating use case returns exactly the error of the step that
\* failed (not-found from the load, a validation error from the
\* construction of a value object, a domain-rule error from the business
\* method, the Applier's error) and runs no later step: the Applier is not
\* invoked after a failed load or business method, and CreateProduct returns
\* no product id when the Applier fails.
C24_ErrorOfFailedStep ==
    /\ LoadFails => StoppedWith(ErrProductNotFound)
    /\ last.uc = "create" /\ last.req.Name = "" => StoppedWith(ErrProductNameRequired)
    /\ last.uc = "update" /\ Loaded /\ last.req.Name = Some("")
        => StoppedWith(ErrProductNameRequired)
    /\ last.uc = "applyDiscount" /\ Loaded
       /\ last.req.Percentage \notin {"0", "7", "10", "12.5", "100"}
        => StoppedWith(ErrDiscountInvalidPercentage)
    /\ last.uc = "applyDiscount" /\ Loaded
       /\ last.req.Percentage \in {"0", "7", "10", "12.5", "100"}
       /\ ~(last.req.StartsAt < last.req.EndsAt)
        => StoppedWith(ErrDiscountInvalidPeriod)
    /\ last.uc = "applyDiscount" /\ Loaded /\ RequestedDiscountValid
       /\ Val(last.loaded).status # ProductStatusActive
        => StoppedWith(ErrProductNotActive)
    /\ last.uc = "removeDiscount" /\ Loaded /\ IsNil(Val(last.loaded).discount)
        => StoppedWith(ErrNoActiveDiscount)
    /\ last.uc # "none" /\ ~last.submitted => last.err # NoErr /\ StoppedWith(last.err)
    /\ last.submitted /\ last.outcome # "ok"
        => last.err = last.outcome /\ last.ret = "" /\ Store = last.before

\* C24 witness: CreateProduct whose plan the Applier refused.
C24_Witness ==
    /\ last.uc = "create"
    /\ last.submitted
    /\ Len(last.plan) = 2
    /\ last.outcome = "spanner unavailable"
    /\ last.err = "spanner unavailable"
    /\ last.ret = ""

\* The pending events of the aggregate of the last execution.
PendingEvents == Val(last.agg).events

\* The number of product-row descriptors at the head of the plan.
RowOffset == IF 1 \in ProductMuts THEN 1 ELSE 0

\* The plan holds at most one product-row descriptor and holds it first;
\* every entry of the plan is a descriptor.
C27_RowFirst ==
    last.submitted
        => /\ ProductMuts \subseteq {1}
           /\ \A i \in PlanIndices : last.plan[i].op \in {"insert", "update"}

\* The descriptors of the plan that follow the product row are those of
\* pending events, in the order the events were appended, none twice.
C27_EventsInOrder ==
    last.submitted
        => \E pos \in [OutboxMuts -> 1..Len(PendingEvents)] :
            /\ \A i \in OutboxMuts :
                /\ last.plan[i].cols["event_type"] = PendingEvents[pos[i]].eventName
                /\ last.plan[i].cols["aggregate_id"] = PendingEvents[pos[i]].productID
            /\ \A i \in OutboxMuts, j \in OutboxMuts : i < j => pos[i] < pos[j]

\* When json.Marshal accepts every payload, the plan holds exactly one
\* descriptor per pending event, in order.
C27_OnePerEventWhenSerialisable ==
    last.submitted /\ last.failing = {}
        => /\ Len(last.plan) = RowOffset + Len(PendingEvents)
           /\ \A j \in 1..Len(PendingEvents) :
                last.plan[RowOffset + j].cols["event_type"] = PendingEvents[j].eventName

\* C27: when the business method succeeds the Applier is invoked with a plan
\* that holds the product-row descriptor first (when there is one) followed
\* by exactly one descriptor per pending event, in the order the events were
\* appended, and no empty descriptor.
C27_PlanOrder ==
    /\ C27_RowFirst
    /\ C27_EventsInOrder
    /\ last.submitted => Len(last.plan) = RowOffset + Len(PendingEvents)

----------------------------------------------------------------------------
(* Properties of the aggregate (SpecDomain) *)

\* C4: Deactivate on an Active product holding a discount succeeds, leaves it
\* Inactive with no discount (its effective price is then its base price) and
\* appends exactly DiscountRemoved then Deactivated; Deactivate on an Inactive
\* product succeeds and changes nothing.
C4_DeactivateRemovesDiscount ==
    call.method = "Deactivate" =>
        /\ call.err = NoErr
        /\ call.before.status = ProductStatusActive /\ ~IsNil(call.before.discount) =>
              /\ p.status = ProductStatusInactive
              /\ p.discount = Nil
              /\ EffectivePrice(p.basePrice, p.discount, call.at).m = p.basePrice
              /\ p.events = call.before.events \o
                               <<NewDiscountRemovedEvent(p.id, call.at),
                                 NewProductDeactivatedEvent(p.id, call.at)>>
        /\ call.before.status = ProductStatusInactive => p = call.before

\* C4 witness: the second of two Deactivate calls on a product that was
\* Active with a discount.
C4_Witness ==
    /\ call.method = "Deactivate"
    /\ call.before.status = ProductStatusInactive
    /\ Len(call.before.events) = 2
    /\ call.before.events[1].eventName = "product.discount_removed"
    /\ call.before.events[2].eventName = "product.deactivated"
    /\ p = call.before

\* C6: ApplyDiscount on a product that is not Active returns
\* ErrProductNotActive whatever the discount and its window.
C6_StatusCheckedFirst ==
    call.method = "ApplyDiscount" /\ call.before.status # ProductStatusActive =>
        call.err = ErrProductNotActive

\* C6 witness: a discount that is not valid now, applied to an Inactive product.
C6_Witness ==
    /\ call.method = "ApplyDiscount"
    /\ call.before.status = ProductStatusInactive
    /\ ~IsNil(call.arg)
    /\ ~IsValidAt(Val(call.arg), call.at)
    /\ call.err = ErrProductNotActive

\* C7: ApplyDiscount returns an error exactly when the product is not Active,
\* the discount is absent or the discount is not valid at `now`, and then the
\* aggregate (status, discount, dirty set, pending events) is what it was.
C7_FailedApplyChangesNothing ==
    call.method = "ApplyDiscount" =>
        /\ call.err # NoErr <=>
              \/ call.before.status # ProductStatusActive
              \/ IsNil(call.arg)
              \/ ~IsValidAt(Val(call.arg), call.at)
        /\ call.err # NoErr => p = call.before

\* C7 witness: an Active product refuses a discount that is not valid now.
C7_Witness ==
    /\ call.method = "ApplyDiscount"
    /\ call.before.status = ProductStatusActive
    /\ call.err = ErrInvalidDiscountPeriod
    /\ p = call.before

\* C10 (as the specification states it): each of the four setters called
\* with the current value of its attribute marks nothing dirty and raises no
\* event.
C10_SetterNoOpOnEqualValue ==
    /\ call.method = "SetName" /\ call.arg = Some(call.before.name) => p = call.before
    /\ call.method = "SetDescription" /\ call.arg = Some(call.before.description) => p = call.before
    /\ call.method = "SetCategory" /\ call.arg = Some(call.before.category) => p = call.before
    /\ call.method = "SetBasePrice" /\ call.arg = call.before.basePrice =>
          p.changes = call.before.changes /\ p.events = call.before.events

\* C12: RecordUpdate on a dirty aggregate appends exactly one Updated event
\* whose changedFields lists every dirty field once and nothing else; on a
\* clean aggregate it appends nothing.  It changes neither an attribute nor
\* the status, the discount or the dirty set.
C12_RecordUpdate ==
    call.method = "RecordUpdate" =>
        /\ call.err = NoErr
        /\ [p EXCEPT !.events = call.before.events] = call.before
        /\ call.before.changes = {} => p.events = call.before.events
        /\ call.before.changes # {} =>
              /\ Len(p.events) = Len(call.before.events) + 1
              /\ SubSeq(p.events, 1, Len(call.before.events)) = call.before.events
              /\ LET e == p.events[Len(p.events)] IN
                  /\ e.eventName = "product.updated"
                  /\ e.productID = p.id
                  /\ e.at = call.at
                  /\ {e.data.changedFields[i] : i \in DOMAIN e.data.changedFields}
                        = call.before.changes
                  /\ Len(e.data.changedFields) = Cardinality(call.before.changes)

\* C12 witness: RecordUpdate on an aggregate with two dirty fields.
C12_Witness ==
    /\ call.method = "RecordUpdate"
    /\ Cardinality(call.before.changes) = 2
    /\ Len(p.events) = Len(call.before.events) + 1
    /\ p.events[Len(p.events)].eventName = "product.updated"


\* The step is a second call of `method`, identical to the call before it
\* (same argument, same time) and made right after it.
RepeatsCall(method) ==
    /\ call.method = method
    /\ call'.method = method
    /\ call'.arg = call.arg
    /\ call'.at = call.at
    /\ call'.before = p
    /\ steps' = steps + 1

\* C13 (as the specification states it): a transition called a second time
\* with the same argument at the same time leaves the aggregate as the first
\* call left it; in particular ApplyDiscount appends no second
\* DiscountApplied event.
C13_RepeatedCallIdempotent ==
    [][\A method \in {"Activate", "Deactivate", "ApplyDiscount", "RemoveDiscount"} :
          RepeatsCall(method) => p' = p]_vars

\* C14: Reconstitute accepts its inputs exactly when the id and the name are
\* non-empty and the status is Active or Inactive; the product it then
\* returns has the id, name, description, category, base price, discount and
\* status given, an empty dirty set and no pending event.
C14_ReconstituteRoundTrip ==
    call.method = "Reconstitute" =>
        /\ call.err = NoErr <=>
              /\ call.arg.id # ""
              /\ call.arg.name # ""
              /\ call.arg.status \in {ProductStatusActive, ProductStatusInactive}
        /\ call.err = NoErr =>
              /\ call.ret = Some(p)
              /\ p.id = call.arg.id
              /\ p.name = call.arg.name
              /\ p.description = call.arg.description
              /\ p.category = call.arg.category
              /\ p.basePrice = call.arg.basePrice
              /\ p.discount = call.arg.discount
              /\ p.status = call.arg.status
              /\ p.changes = {}
              /\ p.events = <<>>

\* C14 witness: an Inactive product rebuilt with a discount.
C14_Witness ==
    /\ call.method = "Reconstitute"
    /\ call.err = NoErr
    /\ call.arg.status = ProductStatusInactive
    /\ ~IsNil(call.arg.discount)
    /\ p.discount = call.arg.discount

\* C16 (as the specification states it): a product returned by NewProduct or
\* Reconstitute has, then and after any business-method calls, a non-empty
\* name, a base price and a status of Active or Inactive.
C16_AttributesValid ==
    Constructed =>
        /\ p.name # ""
        /\ ~IsNil(p.basePrice)
        /\ p.status \in {ProductStatusActive, ProductStatusInactive}

\* The discount is non-null only while the status is Active.
DiscountOnlyWhileActive(a) == ~IsNil(a.discount) => a.status = ProductStatusActive

\* The aggregate came from NewProduct: its first pending event is Created.
FromNewProduct ==
    Constructed /\ Len(p.events) > 0 /\ p.events[1].eventName = "product.created"

\* C17: every business-method call made on an aggregate whose discount is
\* non-null only while it is Active leaves it so, and every aggregate that
\* came from NewProduct is so.
C17_DiscountOnlyWhileActive ==
    /\ [][Constructed /\ DiscountOnlyWhileActive(p) => DiscountOnlyWhileActive(p')]_vars
    /\ [](FromNewProduct => DiscountOnlyWhileActive(p))

\* C17 witness: a product from NewProduct that received a discount and was
\* then deactivated.
C17_Witness ==
    /\ FromNewProduct
    /\ call.method = "Deactivate"
    /\ ~IsNil(call.before.discount)
    /\ call.before.status = ProductStatusActive
    /\ IsNil(p.discount)

\* The columns of table products that hold field f.
ColumnsOf(f) ==
    CASE f = FieldName -> {"name"}
      [] f = FieldDescription -> {"description"}
      [] f = FieldCategory -> {"category"}
      [] f = FieldBasePrice -> {"base_price_numerator", "base_price_denominator"}
      [] f = FieldStatus -> {"status"}
      [] f = FieldDiscount -> {"discount_percent", "discount_start_date",
                               "discount_end_date"}

\* C25: UpdateMut returns no descriptor if and only if no field of the
\* product is dirty; otherwise the descriptor writes the product id, the
\* update timestamp and exactly the columns of the dirty fields (the three
\* discount columns, set or nulled, when the discount is dirty), with the
\* product's current values.
C25_UpdateMutOnlyDirty ==
    LET mut == ProductRepo_UpdateMut(p)
        cols == Val(mut).cols
    IN /\ IsNil(mut) <=> p.changes = {}
       /\ ~IsNil(mut) =>
            /\ Val(mut).op = "update" /\ Val(mut).table = ProductsTable
            /\ DOMAIN cols = {"product_id", "updated_at"}
                                \cup UNION {ColumnsOf(f) : f \in p.changes}
            /\ cols["product_id"] = p.id
            /\ cols["updated_at"] = CommitTimestamp
            /\ FieldName \in p.changes => cols["name"] = p.name
            /\ FieldDescription \in p.changes => cols["description"] = p.description
            /\ FieldCategory \in p.changes => cols["category"] = p.category
            /\ FieldStatus \in p.changes => cols["status"] = p.status
            /\ FieldBasePrice \in p.changes
                => cols["base_price_numerator"] = Val(p.basePrice).amount
            /\ FieldDiscount \in p.changes /\ IsNil(p.discount)
                => /\ IsNil(cols["discount_percent"])
                   /\ IsNil(cols["discount_start_date"])
                   /\ IsNil(cols["discount_end_date"])
            /\ FieldDiscount \in p.changes /\ ~IsNil(p.discount)
                => /\ ~IsNil(cols["discount_percent"])
                   /\ cols["discount_start_date"] = Some(Val(p.discount).startsAt)
                   /\ cols["discount_end_date"] = Some(Val(p.discount).endsAt)

\* C25 witness: a product whose discount was removed and whose other
\* fields were left alone: only the discount is dirty.
C25_Witness ==
    /\ Constructed
    /\ call.method = "RemoveDiscount"
    /\ call.err = NoErr
    /\ p.changes = {FieldDiscount}
    /\ IsNil(p.discount)

----------------------------------------------------------------------------
(* Properties of the aggregate and of its use case (SpecAll) *)

\* C5 (as the specification states it): Activate on an Active product
\* succeeds and changes nothing; the ActivateProduct use case on an Active
\* product returns success.
C5_ActivateActiveSucceeds ==
    /\ call.method = "Activate" /\ call.before.status = ProductStatusActive =>
          call.err = NoErr /\ p = call.before
    /\ Ran("activate") /\ Val(last.loaded).status = ProductStatusActive =>
          last.err = NoErr

\* C5 (amended): Activate on an Active product succeeds and changes nothing;
\* the ActivateProduct use case on an Active product hands the Applier an
\* empty plan and returns what the Applier returns: success when the Applier
\* accepts the plan, the Applier's error otherwise.
C5_ActivateActiveSubmitsEmptyPlan ==
    /\ call.method = "Activate" /\ call.before.status = ProductStatusActive =>
          call.err = NoErr /\ p = call.before
    /\ Ran("activate") /\ Val(last.loaded).status = ProductStatusActive =>
          /\ last.agg = last.loaded
          /\ last.submitted
          /\ last.plan = NewPlan
          /\ last.err = (IF last.outcome = "ok" THEN NoErr ELSE last.outcome)
          /\ Store = last.before

\* C5 witness: ActivateProduct on an Active product while the storage layer
\* is unavailable.
C5_Witness ==
    /\ Ran("activate")
    /\ Val(last.loaded).status = ProductStatusActive
    /\ last.outcome = "spanner unavailable"
    /\ last.err = "spanner unavailable"

\* C9: RemoveDiscount on a product without a discount returns
\* ErrNoActiveDiscount and changes nothing, and the use case then does not
\* call the Applier; on a product with a discount, valid now or not, it
\* clears the discount, marks the discount field dirty and appends exactly one
\* DiscountRemoved event.
C9_RemoveDiscount ==
    /\ call.method = "RemoveDiscount" =>
          IF IsNil(call.before.discount)
          THEN call.err = ErrNoActiveDiscount /\ p = call.before
          ELSE /\ call.err = NoErr
               /\ p = [call.before EXCEPT
                         !.discount = Nil,
                         !.changes = call.before.changes \cup {FieldDiscount},
                         !.events = Append(@, NewDiscountRemovedEvent(p.id, call.at))]
    /\ Ran("removeDiscount") /\ IsNil(Val(last.loaded).discount) =>
          /\ last.err = ErrNoActiveDiscount
          /\ last.agg = last.loaded
          /\ ~last.submitted
          /\ Store = last.before

\* C9 witness: RemoveDiscount on a product whose discount window is over.
C9_Witness ==
    /\ call.method = "RemoveDiscount"
    /\ ~IsNil(call.before.discount)
    /\ ~(call.at < Val(call.before.discount).endsAt)
    /\ p.discount = Nil
    /\ FieldDiscount \in p.changes

\* C15: NewProduct with a non-empty name and a base price returns an Active
\* product without discount, with an empty dirty set and one pending event,
\* Created, carrying its id, name, category, base price and status; with an
\* empty name it returns ErrProductNameRequired, otherwise with no base price
\* ErrProductBasePriceRequired, and no product.  CreateProduct with an empty
\* name returns ErrProductNameRequired without calling the Applier.
C15_NewProduct ==
    /\ call.method = "NewProduct" =>
          IF call.arg.name # "" /\ ~IsNil(call.arg.basePrice)
          THEN /\ call.err = NoErr
               /\ call.ret = Some(p)
               /\ p.name = call.arg.name
               /\ p.description = call.arg.description
               /\ p.category = call.arg.category
               /\ p.basePrice = call.arg.basePrice
               /\ p.status = ProductStatusActive
               /\ p.discount = Nil
               /\ p.changes = {}
               /\ p.events = <<NewProductCreatedEvent(p.id, p.name, p.category, p.basePrice,
                                                      p.status, call.arg.at)>>
          ELSE /\ call.err = (IF call.arg.name = "" THEN ErrProductNameRequired
                              ELSE ErrProductBasePriceRequired)
               /\ call.ret = Nil
    /\ last.uc = "create" /\ last.req.Name = "" =>
          /\ last.err = ErrProductNameRequired
          /\ last.ret = ""
          /\ last.agg = Nil
          /\ ~last.submitted
          /\ Store = last.before

\* C15 witness: CreateProduct with an empty name.
C15_Witness ==
    /\ last.uc = "create"
    /\ last.req.Name = ""
    /\ last.err = ErrProductNameRequired
    /\ ~last.submitted

----------------------------------------------------------------------------
(* Properties of the pricing calculator (SpecPricing) *)

\* The calculator's last answer was given by op for a base price.
Asked(op) == calc.op = op /\ ~IsNil(calc.basePrice)

\* The time of the last answer lies in the discount's window
\* [startsAt, endsAt).
InWindow ==
    /\ ~IsNil(calc.discount)
    /\ Val(calc.discount).startsAt <= calc.at
    /\ calc.at < Val(calc.discount).endsAt

\* C18: when the discount is null or the time is outside [startsAt, endsAt),
\* EffectivePrice returns a Money equal to the base price, and IsDiscounted
\* returns false in exactly those cases.
C18_NoValidDiscount ==
    /\ Asked("EffectivePrice") /\ ~InWindow
        => calc.err = NoErr /\ calc.m = calc.basePrice
    /\ calc.op = "IsDiscounted" => (calc.discounted <=> InWindow)

\* EffectivePrice was asked at the very end of a discount's window and
\* returned the base price.
C18_Witness ==
    /\ Asked("EffectivePrice")
    /\ ~IsNil(calc.discount)
    /\ calc.at = Val(calc.discount).endsAt
    /\ Val(calc.discount).percentage = "10"
    /\ calc.m = calc.basePrice

\* base.amount * (100 - pct) / 100 rounded to the nearest integer, ties away
\* from zero, computed exactly; tenths is pct in tenths of a percent.
RoundedHalfAway(amount, tenths) ==
    WTrim(WDiv(WAdd(WMul(amount, Wide(2 * (1000 - tenths))), Wide(1000)), 2000).q)

\* EffectivePrice answered inside the window with a Money of the base
\* price's currency.
C19_SameCurrency ==
    Asked("EffectivePrice") /\ InWindow
        => /\ calc.err = NoErr
           /\ Val(calc.m).currency = Val(calc.basePrice).currency

\* EffectivePrice's amount inside the window is the exactly rounded one.
C19_ExactlyRounded ==
    Asked("EffectivePrice") /\ InWindow /\ calc.err = NoErr
        => WTrim(Val(calc.m).amount)
            = RoundedHalfAway(Val(calc.basePrice).amount,
                              ParseFloat(Val(calc.discount).percentage).val)

\* EffectivePrice's amount inside the window is not above the base amount.
C19_NotAboveBase ==
    Asked("EffectivePrice") /\ InWindow /\ calc.err = NoErr
        => ~WLess(Val(calc.basePrice).amount, Val(calc.m).amount)

\* C19: for a percentage in [0, 100] and a time inside the window,
\* EffectivePrice returns a Money of the base price's currency whose amount
\* is base.amount * (100 - pct) / 100 rounded to the nearest integer, ties
\* away from zero, and is never greater than the base amount.
C19_DiscountedPrice ==
    /\ C19_SameCurrency
    /\ C19_ExactlyRounded
    /\ C19_NotAboveBase

\* The example of the claim: base 100 at 10 percent gives 90.
C19_Example ==
    Asked("EffectivePrice") /\ InWindow
    /\ Val(calc.basePrice).amount = Wide(100)
    /\ Val(calc.discount).percentage = "10"
        => calc.err = NoErr /\ Narrow(Val(calc.m).amount) = 90

\* Base 250 at 7 percent: 232.5 exactly, which the claim rounds to 233.
C19_Tie ==
    Asked("EffectivePrice") /\ InWindow
    /\ Val(calc.basePrice).amount = Wide(250)
    /\ Val(calc.discount).percentage = "7"
        => calc.err = NoErr /\ Narrow(Val(calc.m).amount) = 232

\* DiscountAmount returns zero in the base price's currency when the
\* discount is null or not valid at the time.
C20_ZeroWithoutDiscount ==
    Asked("DiscountAmount") /\ ~InWindow
        => /\ calc.err = NoErr
           /\ calc.m = Some([amount |-> Wide(0),
                             currency |-> Val(calc.basePrice).currency])

\* When DiscountAmount returns a Money, the effective price plus that Money
\* is the base price.
C20_SumIsBase ==
    Asked("DiscountAmount") /\ calc.err = NoErr
        => LET effective == EffectivePrice(calc.basePrice, calc.discount, calc.at)
           IN /\ effective.err = NoErr
              /\ Val(calc.m).currency = Val(calc.basePrice).currency
              /\ WTrim(WAdd(Val(effective.m).amount, Val(calc.m).amount))
                    = WTrim(Val(calc.basePrice).amount)

\* C20: DiscountAmount returns zero in the base price's currency when the
\* discount is null or not valid at the time, and otherwise the base price
\* minus the effective price, so that effective price + discount amount =
\* base price; it never fails with the negative-result error.
C20_DiscountAmount ==
    /\ C20_ZeroWithoutDiscount
    /\ C20_SumIsBase
    /\ Asked("DiscountAmount") => calc.err = NoErr

\* A base price of 2^53 + 3 under a 0 percent discount valid at the time:
\* DiscountAmount returns the negative-result error.
C20_NegativeResult ==
    Asked("DiscountAmount") /\ InWindow
    /\ Val(calc.basePrice).amount = WAdd(Pow2(Float64Precision), Wide(3))
    /\ Val(calc.discount).percentage = "0"
        => calc.err = ErrNegativeAmount

----------------------------------------------------------------------------
(* Properties of Money (SpecMoney) *)

\* The last call was one of the operations on two Money values.
TwoOperandCall == calc.op \in {"Add", "Subtract", "IsGreaterThan", "IsLessThan"}

\* A two-operand operation on Money values of different currencies fails
\* with an error that is ErrCurrencyMismatch.
C21_MismatchOnDifferentCurrencies ==
    TwoOperandCall /\ ~IsNil(calc.other)
    /\ Val(calc.other).currency # Val(calc.self).currency
        => IsCurrencyMismatch(calc.err) /\ IsNil(calc.m) /\ ~calc.b

\* A two-operand operation whose other operand is nil fails.
C21_FailsOnNil ==
    TwoOperandCall /\ IsNil(calc.other) => calc.err # NoErr /\ IsNil(calc.m) /\ ~calc.b

\* C21: a two-operand Money operation fails with CurrencyMismatch when the
\* currencies differ and, when the other operand is nil, with a different
\* error that is not CurrencyMismatch.
C21_TwoOperandErrors ==
    /\ C21_MismatchOnDifferentCurrencies
    /\ C21_FailsOnNil
    /\ TwoOperandCall /\ IsNil(calc.other) => ~IsCurrencyMismatch(calc.err)

\* No Money operation changes its operands.
C21_OperandsUnchanged == [][calc'.self = calc.self /\ calc'.other = calc.other]_vars

\* The Money returned, if any, has an amount >= 0 and a currency of three
\* letters.
ReturnedMoneyValid ==
    ~IsNil(calc.m)
        => ~IsNegativeInt64(Val(calc.m).amount) /\ CurrencyLen(Val(calc.m).currency) = 3

\* NewMoney returns only Money values with amount >= 0 and a three-letter
\* currency.
C22_NewMoneyValid == calc.op = "NewMoney" => ReturnedMoneyValid

\* Subtract returns the negative-result error, and no Money, exactly when
\* the difference is below zero.
C22_SubtractNeverNegative ==
    calc.op = "Subtract" /\ ~IsNil(calc.other)
    /\ Val(calc.other).currency = Val(calc.self).currency
        => /\ ReturnedMoneyValid
           /\ WLess(Val(calc.self).amount, Val(calc.other).amount)
                <=> (calc.err = ErrNegativeAmount /\ IsNil(calc.m))

\* Add returns only Money values with amount >= 0.
C22_AddValid == calc.op = "Add" => ReturnedMoneyValid

\* Multiply and ApplyPercentageDiscount return only Money values with
\* amount >= 0.
C22_ScaledValid ==
    calc.op \in {"Multiply", "ApplyPercentageDiscount"} => ReturnedMoneyValid

\* C22: every Money returned by NewMoney, Add, Subtract, Multiply or
\* ApplyPercentageDiscount has amount >= 0 and a three-letter currency, for
\* operands over the whole int64 range with wrap-around arithmetic, and
\* Subtract returns the negative-result error whenever the difference would
\* be below zero.
C22_ReturnedMoneyValid ==
    /\ C22_NewMoneyValid
    /\ C22_SubtractNeverNegative
    /\ C22_AddValid
    /\ C22_ScaledValid

----------------------------------------------------------------------------
(* Properties of Discount (SpecDiscount) *)

\* The percentage texts of the model that denote a number in [0, 100].
DenotesPercentage(text) == text \in {"0", "10", "12.5", "100"}

\* NewDiscount returns either a Discount or an error, never both or neither.
C23_DiscountOrError ==
    calc.op # "none" /\ IsNil(calc.d) <=> calc.op # "none" /\ calc.err # NoErr

\* NewDiscount returns no Discount whose period is empty or reversed, and
\* the Discount it returns carries its inputs.
C23_PeriodOrdered ==
    ~IsNil(calc.d)
        => /\ Val(calc.d).startsAt < Val(calc.d).endsAt
           /\ Val(calc.d) = [percentage |-> calc.percentage,
                             startsAt |-> calc.startsAt, endsAt |-> calc.endsAt]

\* NewDiscount returns a Discount for every number in [0, 100] with an
\* ordered period.
C23_ValidAccepted ==
    calc.op # "none" /\ DenotesPercentage(calc.percentage)
    /\ calc.startsAt < calc.endsAt
        => ~IsNil(calc.d)

\* C23: NewDiscount returns a Discount only when the percentage text denotes
\* a number p with 0 <= p <= 100 and endsAt is strictly after startsAt, and
\* an error and no Discount for every other input.
C23_OnlyValidDiscounts ==
    /\ C23_DiscountOrError
    /\ C23_PeriodOrdered
    /\ ~IsNil(calc.d) => DenotesPercentage(Val(calc.d).percentage)

----------------------------------------------------------------------------
(* Successive executions on one product, with the two repositories of the  *)
(* code: ProductRepo, whose GetByID reconstitutes a copy from the row, and  *)
(* inMemoryProductRepo, whose GetByID returns the stored instance itself.   *)
(* calc is [repo, inst, born, handed, n]: the repository in use, the        *)
(* instance the in-memory repository holds, for each event of that instance *)
(* the execution that recorded it, the events handed to the event           *)
(* repository so far (each with the execution handing it over, the          *)
(* execution that recorded it and its position in the aggregate's slice),   *)
(* and the number of executions made.                                        *)

Repositories == {"ProductRepo", "inMemoryProductRepo"}

InitHandOver ==
    /\ now = 0
    /\ products = {}
    /\ outbox = {}
    /\ commitTs = 0
    /\ last = NoExecution
    /\ p = IdleAggregate
    /\ call = NoCall
    /\ steps = 0
    /\ \E repo \in Repositories :
        calc = [repo |-> repo, inst |-> Nil, born |-> <<>>, handed |-> <<>>, n |-> 0]

\* The execution that recorded each event of slice events, born0 telling it
\* for the events the aggregate was loaded with.
BornIn(events, born0, n) ==
    born0 \o [i \in 1..(Len(events) - Len(born0)) |-> n]

\* for _, event := range product.Events() { it.eventRepo.InsertMut(event) }
HandOver(events, born, n) ==
    [i \in 1..Len(events) |->
        [exec |-> n, born |-> born[i], seq |-> i, event |-> events[i]]]

\* The interactor's tail for aggregate a after its business method
\* succeeded: the product mutation, the events, committer.Apply.
Persist(a, born0, productMut) ==
    LET n == calc.n + 1
        born == BornIn(a.events, born0, n)
    IN IF calc.repo = "inMemoryProductRepo"
       THEN /\ calc' = [calc EXCEPT !.inst = Some(a), !.born = born, !.n = n,
                                    !.handed = @ \o HandOver(a.events, born, n)]
            /\ UNCHANGED <<products, outbox, commitTs>>
       ELSE \E res \in {Submit(Store, commitTs, a, productMut, {}, "ok")} :
            /\ calc' = [calc EXCEPT !.n = n,
                                    !.handed = @ \o HandOver(a.events, born, n)]
            /\ products' = res.store.products
            /\ outbox' = res.store.outbox
            /\ commitTs' = res.ts

\* CreateProductInteractor.Execute, the first execution.
ExecuteCreate ==
    /\ calc.n = 0
    /\ \E np \in {NewProduct(SharedID, "Laptop", "a product", "electronics",
                             NewMoney(basePrice, "USD").m, now)} :
        Persist(Val(np.p), <<>>, ProductRepo_InsertMut(Val(np.p)))
    /\ UNCHANGED <<now, last, p, call, steps>>

\* it.repo.GetByID(ctx, req.ProductID) with the repository in use.
Load ==
    IF calc.repo = "inMemoryProductRepo"
    THEN [p |-> Val(calc.inst), born |-> calc.born]
    ELSE [p |-> Val(GetByID(products, SharedID).p), born |-> <<>>]

\* Execute of an interactor of an existing product.
ExecuteOnProduct ==
    /\ calc.n >= 1
    /\ calc.n <= MaxCalls
    /\ \E uc \in ConcurrentUseCases :
       \E got \in {Load} :
       \E r \in {BusinessMethod(uc, got.p, now)} :
          IF r.err # NoErr
          THEN /\ calc' = [calc EXCEPT !.n = @ + 1]
               /\ UNCHANGED <<products, outbox, commitTs>>
          ELSE Persist(r.p, got.born, ProductRepo_UpdateMut(r.p))
    /\ UNCHANGED <<now, last, p, call, steps>>

NextHandOver ==
    \/ ExecuteCreate
    \/ ExecuteOnProduct
    \/ Tick

SpecHandOver == InitHandOver /\ [][NextHandOver]_vars

----------------------------------------------------------------------------
(* Properties of the change tracker (SpecTracker) *)

\* Goroutine t is accessing the map.
Accessing(t) == calc.g[t].pc = "in"

\* Every access to the map is made while holding the lock: a write with the
\* write lock, a read with the read lock.
C26_AccessUnderLock ==
    \A t \in Goroutines :
        Accessing(t) => IF calc.g[t].kind = "write" THEN calc.writer = Some(t)
                        ELSE t \in calc.readers

\* No read of the map overlaps a write to it, and no two writes overlap.
C26_NoOverlap == \A t \in Goroutines : ~Races(calc.g, t)

\* C26: every access to the dirty set (MarkDirty, Dirty, Clear and the
\* enumeration done by RecordUpdate) happens while holding the tracker's
\* lock, so that no read of the set overlaps a write in any interleaving.
C26_TrackerSafe == C26_AccessUnderLock /\ C26_NoOverlap

\* The accesses of MarkDirty, Dirty and Clear are made under the lock and
\* never overlap one another.
C26_LockedMethodsSafe ==
    \A t \in Goroutines :
        Accessing(t) /\ calc.g[t].op # "RecordUpdate"
            => /\ IF calc.g[t].kind = "write" THEN calc.writer = Some(t)
                  ELSE t \in calc.readers
               /\ Races(calc.g, t)
                    => \E u \in Goroutines \ {t} : calc.g[u].op = "RecordUpdate"

----------------------------------------------------------------------------
(* Properties of concurrent executions (SpecConcurrent) *)

\* No row of table products holds a discount while its status is inactive.
C28_NoDiscountWhileInactive ==
    \A r \in products :
        r.status = ProductStatusInactive => IsNil(r.discount_percent)

\* Execution e committed on a row that another execution had changed since
\* e read it.
CommittedOnStaleRow(e) == calc[e].committed /\ calc[e].found # calc[e].read

\* Every committed execution took effect on the row it had loaded; an
\* execution that finds another row fails.
C28_EffectOnLoadedState == \A e \in Executions : ~CommittedOnStaleRow(e)

\* C28: under every interleaving of two executions on one product id the
\* persisted row never holds a discount while inactive, and every committed
\* execution takes effect on the state it loaded or fails with a conflict
\* error.
C28_ConcurrentExecutions == C28_NoDiscountWhileInactive /\ C28_EffectOnLoadedState

\* As long as no execution has committed on a row changed since it read it,
\* no row holds a discount while inactive.
C28_SafeWithoutInterference ==
    C28_EffectOnLoadedState => C28_NoDiscountWhileInactive

----------------------------------------------------------------------------
(* Properties of successive executions (SpecHandOver) *)

\* Hand-overs i and j are of the same domain event.
SameEvent(i, j) ==
    /\ calc.handed[i].born = calc.handed[j].born
    /\ calc.handed[i].seq = calc.handed[j].seq

\* C29: across successive successful executions on one product every domain
\* event is handed to the event repository in exactly one execution's plan
\* and never handed over again by a later execution, whichever repository
\* is in use.
C29_HandedOverOnce ==
    \A i, j \in 1..Len(calc.handed) :
        SameEvent(i, j) => calc.handed[i].exec = calc.handed[j].exec

\* Every event is handed over by the execution that recorded it.
C29_HandedOverWhenRecorded ==
    \A i \in 1..Len(calc.handed) :
        \E j \in 1..Len(calc.handed) :
            SameEvent(i, j) /\ calc.handed[j].exec = calc.handed[j].born

\* With the repository that reconstitutes the product from its row no event
\* is handed over by two executions.
C29_OnceWhenReconstituted ==
    calc.repo = "ProductRepo" => C29_HandedOverOnce

----------------------------------------------------------------------------
(* Properties of the stored base price (Spec) *)

\* The last execution was a CreateProduct that returned an id.
Created == last.uc = "create" /\ last.err = NoErr

\* The product GetByID returns for the id the last execution returned.
LoadedBack == GetByID(products, last.ret)

\* C30: for every product created by CreateProduct, GetByID returns a
\* product whose base price has the amount and the currency it was created
\* with.
C30_BasePricePreserved ==
    Created => /\ LoadedBack.err = NoErr
               /\ Val(LoadedBack.p).basePrice = Val(last.agg).basePrice

\* The amount of the base price is the one the product was created with.
C30_AmountPreserved ==
    Created => /\ LoadedBack.err = NoErr
               /\ Val(Val(LoadedBack.p).basePrice).amount
                    = Val(Val(last.agg).basePrice).amount

====
